---------------------------- MODULE Spec2Model ----------------------------
(***************************************************************************)
(* Verification model of the carta1 ATRAC1 codec (aynik/carta1).           *)
(*                                                                         *)
(* The module holds one group of variables per component and one           *)
(* specification per component:                                            *)
(*   SpecAlloc   bit allocation (both allocators) and the encoder's        *)
(*               quantization stage output shape; SpecAllocLive adds the   *)
(*               fairness of the allocator's steps                         *)
(*   SpecSer     serializeFrame and deserializeFrame on a sound unit       *)
(*   SpecQuant   quantization stage, sound unit, dequantization stage      *)
(*   SpecFlush   withFlushSamples                                          *)
(*   SpecDelay   withDelayCompensation                                     *)
(*   SpecStereo  stereo encoding and decoding of a stream of frame pairs   *)
(*   SpecBits    packBits and unpackBits on a buffer of their own          *)
(*   SpecAea     AEA header, createAeaBlob and encodeFile                  *)
(*   SpecOpt     EncoderOptions: constructor, setValue, setOptions, reset  *)
(*   SpecDec     the decoder pipeline of one decode() instance             *)
(*   SpecCli     main of the command line and its exit code                *)
(*   SpecSel     the block selector stage of the encoder                   *)
(*   SpecWk      Carta1Worker and the worker thread; SpecWkLive adds the   *)
(*               fairness of the two event loops                           *)
(*   SpecMono    mono encoding and decoding of a stream of frames          *)
(*                                                                         *)
(* Floating-point quantities are modelled on exact integer grids:          *)
(*   - a coefficient magnitude is an index lg on a logarithmic grid with   *)
(*     half scale-factor steps, |c| = 2^(lg/6 - 21), so SCALE_FACTORS[i]   *)
(*     is the grid point lg = 2*i, and the value zero has its own code;        *)
(*   - heap priorities are kept in a monotone integer image of the value   *)
(*     the code computes, so every comparison decides as in the code.      *)
(***************************************************************************)
EXTENDS Integers, Sequences, FiniteSets, TLC

(***************************************************************************)
(* Program constants (codec/core/constants.js)                             *)
(***************************************************************************)
SAMPLES_PER_FRAME == 512
CODEC_DELAY == 266
SOUND_UNIT_SIZE == 212
FRAME_BITS == SOUND_UNIT_SIZE * 8
FRAME_OVERHEAD_BITS == 40
NUM_BFUS == 52
BITS_PER_BFU_METADATA == 10
MAX_WORD_LENGTH_INDEX == 15
FRAME_HEADER_BITS == 16
FRAME_WORD_LENGTH_BITS == 4
FRAME_SCALE_FACTOR_BITS == 6
QUANTIZATION_SIGN_BIT_SHIFT == 1
\* dB values are integers in hundredths of a dB
PSYMODEL_MIN_POWER_DB == -200 * 100

SPECS_PER_BFU ==
  << 8, 8, 8, 8, 4, 4, 4, 4, 8, 8, 8, 8, 6, 6, 6, 6, 6, 6, 6, 6, 6, 6, 6, 6, 7, 7,
     7, 7, 9, 9, 9, 9, 10, 10, 10, 10, 12, 12, 12, 12, 12, 12, 12, 12, 20, 20, 20,
     20, 20, 20, 20, 20 >>

BFU_AMOUNTS == << 20, 28, 32, 36, 40, 44, 48, 52 >>

BFU_BAND_BOUNDARIES == << 20, 36, 52 >>

BFU_START_LONG ==
  << 0, 8, 16, 24, 32, 36, 40, 44, 48, 56, 64, 72, 80, 86, 92, 98, 104, 110,
     116, 122, 128, 134, 140, 146, 152, 159, 166, 173, 180, 189, 198, 207,
     216, 226, 236, 246, 256, 268, 280, 292, 304, 316, 328, 340, 352, 372,
     392, 412, 432, 452, 472, 492 >>

BFU_START_SHORT ==
  << 0, 32, 64, 96, 8, 40, 72, 104, 12, 44, 76, 108, 20, 52, 84, 116, 26, 58,
     90, 122, 128, 160, 192, 224, 134, 166, 198, 230, 141, 173, 205, 237,
     150, 182, 214, 246, 256, 288, 320, 352, 384, 416, 448, 480, 268, 300,
     332, 364, 396, 428, 460, 492 >>

WORD_LENGTH_BITS == << 0, 2, 3, 4, 5, 6, 7, 8, 9, 10, 11, 12, 13, 14, 15, 16 >>

\* DISTORTION_DELTA_DB[i] in hundredths of a dB:
\* 10*log10(QUANT_DISTORTION_TABLE[i+1] / QUANT_DISTORTION_TABLE[i])
DISTORTION_DELTA_DB ==
  << -1079, -954, -736, -662, -631, -616, -609, -605, -604, -603, -602,
     -602, -602, -602, -602 >>

\* Zero-based reads of the tables, as the code indexes them.
\* A read past the end of a typed array is undefined in JavaScript;
\* (undefined - x) | 0 is 0, which WlBits reproduces with 0 bits.
BfuSize(i) == SPECS_PER_BFU[i + 1]
WlBits(wl) == IF wl + 1 \in DOMAIN WORD_LENGTH_BITS THEN WORD_LENGTH_BITS[wl + 1] ELSE 0

BfuIndices == 0 .. (NUM_BFUS - 1)

Max(a, b) == IF a >= b THEN a ELSE b
Min(a, b) == IF a <= b THEN a ELSE b

(***************************************************************************)
(* State.  Each component has its own variables; a specification runs one  *)
(* component and holds the others at rest.                                 *)
(***************************************************************************)
VARIABLES
  strategy,         \* "rdo": Lp-RDO allocator, "greedy": SMR allocator
  bfuData,          \* input: bfuData[i] is the coefficient code filling BFU i
  maskDb,           \* input of the SMR allocator: interpolated mask per BFU
  allocPc,          \* position: "input", "loop", "done"
  usedBFU,          \* activeBfuCount
  remainingBits,
  wordLengths,      \* word-length index per active BFU
  scaleFactorTable, \* scale-factor index per BFU
  heapIndices,
  heapPriorities,
  allocSteps,       \* loop iterations executed so far
  encoded           \* the encoded frame handed to the serializer

allocVars == << strategy, bfuData, maskDb, allocPc, usedBFU, remainingBits,
                wordLengths, scaleFactorTable, heapIndices, heapPriorities,
                allocSteps, encoded >>

VARIABLES
  serPc,            \* "idle", "frame", "unit", "frame read", "error"
  frameData,        \* the frame handed to serializeFrame
  soundUnit,        \* the sound unit
  serBitPosition,   \* bit position after the last field written or read
  deserialized      \* the frame deserializeFrame returns

serVars == << serPc, frameData, soundUnit, serBitPosition,
             deserialized >>

VARIABLES
  quantPc,              \* "idle", "bfus", "quantized", "decoded"
  quantInput,           \* what the quantization stage works on
  decoderFrame,         \* the frame handed to dequantizationStage
  decodedCoefficients   \* the 512 coefficients dequantizationStage returns

quantVars == << quantPc, quantInput, decoderFrame, decodedCoefficients >>

VARIABLES
  flushPc,          \* "idle", "frames", "done", "error"
  flushIter,        \* the input frames withFlushSamples has not read yet
  flushFrames,      \* all its input frames
  samplesToFlush,
  lastFrameLength,
  flushOut          \* the frames it has yielded

flushVars == << flushPc, flushIter, flushFrames, samplesToFlush,
               lastFrameLength, flushOut >>

VARIABLES
  delayPc,                \* "idle", "frames", "done"
  pcmFrameStream,         \* the input frames withDelayCompensation has not read yet
  delayFrames,            \* all its input frames
  dropRequested,          \* samplesToDrop as passed by the caller
  samplesToDrop,
  delayBuffer,            \* buffer
  droppedInitialSamples,
  delayOut                \* the frames it has yielded

delayVars == << delayPc, pcmFrameStream, delayFrames, dropRequested,
               samplesToDrop, delayBuffer, droppedInitialSamples, delayOut >>

VARIABLES
  stereoPc,         \* "idle", "collect", "zip", "encoded", "decode", "done", "error"
  audioFrames,      \* the input stream of [left, right] frame pairs
  leftTransformed,  \* what is left of the padded left stream
  rightTransformed, \* what is left of the padded right stream
  leftEncoder,      \* the frames the left encoder instance has taken
  rightEncoder,
  encodedUnits,     \* the encoded stream
  encodedFrames,    \* the units the decoder has not read yet
  decodeFed,        \* all the units handed to the decoder
  leftFrame,
  isLeftChannel,
  leftDecoder,      \* the units the left decoder instance has taken
  rightDecoder,
  rawPcmFrames,     \* the decoded pairs before delay compensation
  stereoOut         \* the decoded stream

stereoVars == << stereoPc, audioFrames, leftTransformed, rightTransformed,
                leftEncoder, rightEncoder, encodedUnits, encodedFrames,
                decodeFed, leftFrame, isLeftChannel, leftDecoder,
                rightDecoder, rawPcmFrames, stereoOut >>

VARIABLES
  bitsPc,           \* "idle", "input", "packed", "read"
  bitOrig,          \* the buffer before packBits
  bitBuf,           \* the buffer
  bitPos,           \* bitPosition
  bitVal,           \* value
  bitCnt,           \* bitCount
  bitRead           \* what unpackBits returned

bitsVars == << bitsPc, bitOrig, bitBuf, bitPos, bitVal, bitCnt, bitRead >>

VARIABLES
  aeaPc,            \* "idle", the entry point, "header", "parsed", "invalid title", "error"
  aeaEntry,         \* "createHeader", "createAeaBlob", "encodeFile"
  aeaTitle,         \* the title argument or option: UTF-16 code units, or NoTitle
  aeaOutputName,    \* encodeFile: path.basename(outputFile, '.aea')
  aeaCount,         \* createHeader: the frameCount argument
  aeaChannels,      \* channelCount
  aeaPcm,           \* the PCM frames (mono) or frame pairs (stereo) encoded
  aeaUnits,         \* the encoded stream createAeaBlob was handed
  aeaHeader,        \* the header bytes
  aeaBodySize,      \* the bytes of the blob after the header
  aeaInfo           \* what parseHeader returned

aeaVars == << aeaPc, aeaEntry, aeaTitle, aeaOutputName, aeaCount, aeaChannels,
             aeaPcm, aeaUnits, aeaHeader, aeaBodySize, aeaInfo >>

VARIABLES
  optPc,            \* "idle", "new", "ready", "failed" (the constructor threw)
  optValues,        \* this.values
  optBefore,        \* this.values before the last call
  optCall,          \* the last call: its name and the entries it was given
  optError          \* "none", or the error the last call threw

optVars == << optPc, optValues, optBefore, optCall, optError >>

VARIABLES
  decPc,            \* "idle", "stream", "error" (the decoder threw a TypeError)
  decStream,        \* the frames not yet handed to the decoder instance
  decTaken,         \* the frames handed to it so far
  imdctOverlap,     \* per band: are the last 16 samples of the overlap buffer not zero
  qmfDelays,        \* bufferPool.qmfDelays: lowBand, midBand, highBand
  highBandDelay,    \* bufferPool.qmfWorkBuffers.highBandDelay[256]
  decBands,         \* the bands imdctStage returned for the last frame
  decHighBand,      \* the high band handed to the final qmfSynthesis
  decDelayBefore,   \* delays.highBand before the last call
  decOut            \* the PCM frame the decoder returned last

decVars == << decPc, decStream, decTaken, imdctOverlap, qmfDelays,
              highBandDelay, decBands, decHighBand, decDelayBefore, decOut >>

VARIABLES
  cliPc,            \* "idle", "main", "operation", "exited"
  cliOptions,       \* program.opts(): encode, decode, json, force, title
  cliInput,         \* what the input path holds
  cliOutputExists,  \* fs.existsSync(outputFile)
  cliFailure,       \* "none", or the kind of failure: "usage", "io", "format"
  cliMessage,       \* the error message printed
  cliExit           \* the exit code of the process, NotExited before

cliVars == << cliPc, cliOptions, cliInput, cliOutputExists, cliFailure,
              cliMessage, cliExit >>

VARIABLES
  selPc,            \* "idle", "frames"
  selVersion,       \* which blockSelectorStage the encoder is built with
  selOptions,       \* context.options: the three thresholds, in thousandths
  selScores,        \* the transient score of each band for the last frame
  blockModes        \* the block modes returned for the last frame

selVars == << selPc, selVersion, selOptions, selScores, blockModes >>

VARIABLES
  wkWorker,         \* this.worker: "worker", or "null" after terminate()
  nextJobId,        \* this.nextJobId
  jobs,             \* this.jobs: job id -> the call whose resolve / reject it holds
  wkCalls,          \* number of calls made on the instance
  promises,         \* state of the promise returned by each call
  settleCalls,      \* how often resolve or reject of each call was called
  wkInbox,          \* messages posted to the worker thread, not yet handled
  wkRunning,        \* messages whose handler in the worker has not finished
  wkOutbox          \* messages posted by the worker thread, not yet handled

wkVars == << wkWorker, nextJobId, jobs, wkCalls, promises, settleCalls,
             wkInbox, wkRunning, wkOutbox >>

VARIABLES
  monoPc,           \* "idle", "encode", "decode", "done"
  monoFrames,       \* the PCM frames of the mono input stream
  monoIter,         \* the input frames withFlushSamples has not read yet
  monoLastLength,   \* lastFrameLength of withFlushSamples
  monoFlushed,      \* the frames withFlushSamples has yielded
  monoEncoder,      \* the frames the encoder instance has taken
  monoUnits,        \* the encoded stream
  monoEncoded,      \* the units the decoder has not read yet
  monoDecoder,      \* the units the decoder instance has taken
  monoRaw,          \* the frames the decoder has returned
  monoDelay,        \* the locals of withDelayCompensation
  monoOut           \* the frames decodeStream has yielded

monoVars == << monoPc, monoFrames, monoIter, monoLastLength, monoFlushed,
               monoEncoder, monoUnits, monoEncoded, monoDecoder, monoRaw,
               monoDelay, monoOut >>

vars == << allocVars, serVars, quantVars, flushVars, delayVars, stereoVars, bitsVars, aeaVars, optVars, decVars, cliVars, selVars, wkVars, monoVars >>
allocOthers == << serVars, quantVars, flushVars, delayVars, stereoVars, bitsVars, aeaVars, optVars, decVars, cliVars, selVars, wkVars, monoVars >>
serOthers == << allocVars, quantVars, flushVars, delayVars, stereoVars, bitsVars, aeaVars, optVars, decVars, cliVars, selVars, wkVars, monoVars >>
quantOthers == << allocVars, flushVars, delayVars, stereoVars, bitsVars, aeaVars, optVars, decVars, cliVars, selVars, wkVars, monoVars >>
flushOthers == << allocVars, serVars, quantVars, delayVars, stereoVars, bitsVars, aeaVars, optVars, decVars, cliVars, selVars, wkVars, monoVars >>
delayOthers == << allocVars, serVars, quantVars, flushVars, stereoVars, bitsVars, aeaVars, optVars, decVars, cliVars, selVars, wkVars, monoVars >>
stereoOthers == << allocVars, serVars, quantVars, flushVars, delayVars, bitsVars, aeaVars, optVars, decVars, cliVars, selVars, wkVars, monoVars >>
bitsOthers == << allocVars, serVars, quantVars, flushVars, delayVars, stereoVars, aeaVars, optVars, decVars, cliVars, selVars, wkVars, monoVars >>
aeaOthers == << allocVars, serVars, quantVars, flushVars, delayVars, stereoVars, bitsVars, optVars, decVars, cliVars, selVars, wkVars, monoVars >>
optOthers == << allocVars, serVars, quantVars, flushVars, delayVars, stereoVars, bitsVars, aeaVars, decVars, cliVars, selVars, wkVars, monoVars >>
decOthers == << allocVars, serVars, quantVars, flushVars, delayVars, stereoVars, bitsVars, aeaVars, optVars, cliVars, selVars, wkVars, monoVars >>
cliOthers == << allocVars, serVars, quantVars, flushVars, delayVars, stereoVars, bitsVars, aeaVars, optVars, decVars, selVars, wkVars, monoVars >>
selOthers == << allocVars, serVars, quantVars, flushVars, delayVars, stereoVars, bitsVars, aeaVars, optVars, decVars, cliVars, wkVars, monoVars >>
wkOthers == << allocVars, serVars, quantVars, flushVars, delayVars, stereoVars, bitsVars, aeaVars, optVars, decVars, cliVars, selVars, monoVars >>
monoOthers == << allocVars, serVars, quantVars, flushVars, delayVars, stereoVars, bitsVars, aeaVars, optVars, decVars, cliVars, selVars, wkVars >>

(***************************************************************************)
(* Coefficient values.  A coefficient is an integer code c: 0 is the       *)
(* value zero, otherwise the sign of c is the sign of the value and        *)
(* LgOf(c) is the index of its magnitude on the half-step logarithmic      *)
(* grid: |value| = 2^(LgOf(c)/6 - 21).  SCALE_FACTORS[i] = 2^(i/3 - 21)    *)
(* is the grid point 2*i.  Codes 1..3 lie below SCALE_FACTORS[0], codes    *)
(* above 130 lie above SCALE_FACTORS[63] = 1.0.                            *)
(***************************************************************************)
Abs(x) == IF x < 0 THEN -x ELSE x
LgOf(c) == Abs(c) - 4
\* grid index of SCALE_FACTORS[i]
SCALE_FACTORS(i) == 2 * i

\* Math.max over Math.abs of the coefficients (0 when all are zero)
RECURSIVE maxAmplitude(_)
maxAmplitude(coefficients) ==
  IF coefficients = << >> THEN 0
  ELSE Max(Abs(Head(coefficients)), maxAmplitude(Tail(coefficients)))

\* quantization.js findScaleFactor: binary search over SCALE_FACTORS
RECURSIVE findScaleFactorSearch(_, _, _)
findScaleFactorSearch(amp, low, high) ==
  IF low < high
  THEN LET mid == (low + high) \div 2
       IN IF LgOf(amp) <= SCALE_FACTORS(mid)
          THEN findScaleFactorSearch(amp, low, mid)
          ELSE findScaleFactorSearch(amp, mid + 1, high)
  ELSE low

findScaleFactor(coefficients) ==
  LET amp == maxAmplitude(coefficients)
  IN IF amp = 0 THEN 0 ELSE findScaleFactorSearch(amp, 0, 63)

\* ceiling of n/2 for any integer n
CeilHalf(n) == (n + 1) \div 2

findScaleFactorUnclamped(coefficients) ==
  LET amp == maxAmplitude(coefficients)
  IN IF amp = 0 THEN 0 ELSE CeilHalf(LgOf(amp))

\* SCALE_FACTORS is a Float32Array filled with Math.pow(2.0, i / 3.0 - 21):
\* entry i is 2^(i/3 - 21) rounded to single precision, exact when i is a
\* multiple of 3, rounded up when i % 3 = 1 and down when i % 3 = 2.  The
\* even grid points are the table entries as stored.
Float32Rounding(i) ==
  CASE i % 3 = 0 -> 0
    [] i % 3 = 1 -> 1
    [] OTHER -> -1

\* Math.ceil(3 * (Math.log2(a) + 21)) in double precision for a at grid
\* index lg: at a table entry that was rounded up the argument lies just
\* above the integer lg / 2
ceilLog(lg) ==
  IF lg % 2 = 0 /\ lg >= 0 /\ lg <= SCALE_FACTORS(63)
       /\ Float32Rounding(lg \div 2) = 1
  THEN (lg \div 2) + 1
  ELSE CeilHalf(lg)

\* bitallocation.js findScaleFactor (RDO version):
\* Math.ceil(3 * (Math.log2(maxAmplitude) + 21)) clamped to [0, 63]
findScaleFactorRDO(coefficients) ==
  LET amp == maxAmplitude(coefficients)
  IN IF amp = 0 THEN 0
     ELSE Max(0, Min(63, ceilLog(LgOf(amp))))

(***************************************************************************)
(* Max-heap helpers of bitallocation.js.  heapIndices and heapPriorities   *)
(* are sequences; code index k is sequence position k + 1.                 *)
(***************************************************************************)
\* The values handed to the next round are bound through singleton sets, so
\* each array is one value, as the typed arrays of the code are.
RECURSIVE siftDownLoop(_, _, _, _, _)
siftDownLoop(hI, hP, i, idxVal, prVal) ==
  LET heapSize == Len(hI)
      l == 2 * i + 1
      r == l + 1
      leftWins == l < heapSize /\ hP[l + 1] > prVal
      maxI1 == IF leftWins THEN l ELSE i
      maxP1 == IF leftWins THEN hP[l + 1] ELSE prVal
      maxI == IF r < heapSize /\ hP[r + 1] > maxP1 THEN r ELSE maxI1
  IN IF maxI = i
     THEN [idx |-> [hI EXCEPT ![i + 1] = idxVal],
           pri |-> [hP EXCEPT ![i + 1] = prVal]]
     ELSE CHOOSE res \in
            { siftDownLoop(nI, nP, m, iv, pv) :
                nI \in { [hI EXCEPT ![i + 1] = hI[maxI + 1]] },
                nP \in { [hP EXCEPT ![i + 1] = hP[maxI + 1]] },
                m \in { maxI }, iv \in { idxVal }, pv \in { prVal } } : TRUE

siftDown(hI, hP, startIndex) ==
  CHOOSE res \in
    { siftDownLoop(nI, nP, startIndex, nI[startIndex + 1], nP[startIndex + 1]) :
        nI \in { hI }, nP \in { hP } } : TRUE

popRootKeep(hI, hP) == [idx |-> hI, pri |-> hP]

popRoot(hI, hP) ==
  LET last == Len(hI)
      hI2 == SubSeq([hI EXCEPT ![1] = hI[last]], 1, last - 1)
      hP2 == SubSeq([hP EXCEPT ![1] = hP[last]], 1, last - 1)
  IN IF Len(hI2) > 0 THEN siftDown(hI2, hP2, 0)
     ELSE [idx |-> hI2, pri |-> hP2]

\* the heapify loop: for (i = (length >> 1) - 1; i >= 0; i--) siftDown(i)
RECURSIVE heapifyFrom(_, _)
heapifyFrom(h, i) ==
  IF i < 0 THEN h
  ELSE CHOOSE res \in
         { heapifyFrom(g, i - 1) : g \in { siftDown(h.idx, h.pri, i) } } : TRUE

heapify(hI, hP) ==
  CHOOSE res \in
    { heapifyFrom(g, (Len(g.idx) \div 2) - 1) : g \in { [idx |-> hI, pri |-> hP] } } : TRUE

(***************************************************************************)
(* Bit allocation (codec/coding/bitallocation.js, both allocators)         *)
(***************************************************************************)
\* the BFU's coefficients as groupIntoBFUs hands them over
bfuCoefficients(data, i) == [j \in 1 .. BfuSize(i) |-> data[i]]

NEG_INFINITY == -1000000000

\* The table INV_POWER_OF_TWO[b] = 2^-b that bitallocation.js imports, in the
\* image 3072 * log2(.)
INV_POWER_OF_TWO(bits) == -3072 * bits

\* deltaDistPerCoeff(bfu, cur, nxt) / deltaBits of distributeBitsRDO, in the
\* monotone image 3072 * log2(.) + 64512.  scaleFactor maps to 1024 * sfi;
\* the step 0 -> 1 (0 to 2 bits) has (2 - 2^-2) / 2 = 7/8, log2 = -0.1926;
\* every other step b -> b + 1 bits has (2^-b - 2^-(b+1)) / 1 = 2^-(b+1).
rdoPriority(sfi, currentWl, nextWl) ==
  LET bits1 == WlBits(currentWl)
      bits2 == WlBits(nextWl)
  IN 1024 * sfi + (IF bits1 = 0 THEN -592 ELSE INV_POWER_OF_TWO(bits2))

\* calculateBfuEnergy for a BFU filled with one magnitude:
\* 10 * log10(sum / sz) = 20 * log10(2) * (lg / 6 - 21) dB
calculateBfuEnergy(data, i) ==
  IF data[i] = 0 THEN PSYMODEL_MIN_POWER_DB
  ELSE (100343 * LgOf(data[i])) \div 1000 - 12643

calculateSMR(data, mask, i) ==
  LET energyValue == calculateBfuEnergy(data, i)
  IN IF energyValue <= PSYMODEL_MIN_POWER_DB THEN NEG_INFINITY
     ELSE energyValue - mask[i]

\* the positive SMR values of BFUs 0..n-1, sorted highest first
\* (positiveSMRBfus after its sort); rank orders equal values by index
positiveSMRBfus(smr, n) ==
  LET P == { i \in 0 .. (n - 1) : smr[i] > 0 }
      rank(i) == Cardinality({ j \in P : smr[j] > smr[i]
                                          \/ (smr[j] = smr[i] /\ j < i) })
  IN [k \in 1 .. Cardinality(P) |-> smr[CHOOSE i \in P : rank(i) = k - 1]]

\* sum of the first k elements of a sequence
RECURSIVE SeqSum(_, _)
SeqSum(sq, k) == IF k = 0 THEN 0 ELSE sq[k] + SeqSum(sq, k - 1)

\* BFU_AMOUNTS.find((count) => count > bfuIndex) || BFU_AMOUNTS[last]
RECURSIVE findAmountAbove(_, _)
findAmountExact(bfuIndex, k) == bfuIndex + 1

findAmountAbove(bfuIndex, k) ==
  IF k > Len(BFU_AMOUNTS) THEN BFU_AMOUNTS[Len(BFU_AMOUNTS)]
  ELSE IF BFU_AMOUNTS[k] > bfuIndex THEN BFU_AMOUNTS[k]
  ELSE findAmountAbove(bfuIndex, k + 1)

\* the energy fallback of selectOptimalBfuCount: scan from the top BFU down
RECURSIVE energyFallback(_, _)
energyFallback(energy, bfuIndex) ==
  IF bfuIndex < 0 THEN BFU_AMOUNTS[1]
  ELSE IF energy[bfuIndex] > PSYMODEL_MIN_POWER_DB THEN findAmountAbove(bfuIndex, 1)
  ELSE energyFallback(energy, bfuIndex - 1)

\* the diminishing-returns scan over BFU_AMOUNTS; averageExcluded <
\* averageIncluded * 0.1 is compared after cross-multiplication
RECURSIVE cutoffScan(_, _, _)
cutoffScan(pos, maxBfuCount, k) ==
  IF k > Len(BFU_AMOUNTS) THEN BFU_AMOUNTS[Len(BFU_AMOUNTS)]
  ELSE LET candidateCount == BFU_AMOUNTS[k]
           included == SeqSum(pos, Min(candidateCount, Len(pos)))
           excluded == SeqSum(pos, Len(pos)) - included
       IN IF candidateCount > maxBfuCount THEN cutoffScan(pos, maxBfuCount, k + 1)
          ELSE IF Len(pos) <= candidateCount THEN candidateCount
          ELSE IF 10 * excluded * candidateCount < included * (Len(pos) - candidateCount)
               THEN candidateCount
          ELSE cutoffScan(pos, maxBfuCount, k + 1)

selectOptimalBfuCount(smr, energy, maxBfuCount) ==
  CHOOSE res \in
    { IF pos = << >> THEN energyFallback(energy, maxBfuCount - 1)
      ELSE cutoffScan(pos, maxBfuCount, 1) :
        pos \in { positiveSMRBfus(smr, maxBfuCount) } } : TRUE

RECURSIVE heapEntriesAll(_, _)
heapEntriesAll(keep, n) ==
  IF n = 0 THEN << >> ELSE Append(heapEntriesAll(keep, n - 1), n - 1)

\* the BFUs 0..n-1 that satisfy keep, in index order
RECURSIVE heapEntries(_, _)
heapEntries(keep, n) ==
  IF n = 0 THEN << >>
  ELSE IF keep[n - 1] THEN Append(heapEntries(keep, n - 1), n - 1)
  ELSE heapEntries(keep, n - 1)

availableBitsNoMetadata(n) == FRAME_BITS - FRAME_OVERHEAD_BITS

\* FRAME_BITS - FRAME_OVERHEAD_BITS - usedBFU * BITS_PER_BFU_METADATA
availableBits(n) == FRAME_BITS - FRAME_OVERHEAD_BITS - n * BITS_PER_BFU_METADATA

\* (WORD_LENGTH_BITS[nxt] - WORD_LENGTH_BITS[cur]) | 0; a read past the end
\* of the table is undefined and (undefined - x) | 0 is 0
rdoDeltaBits(cur, nxt) ==
  IF nxt + 1 \in DOMAIN WORD_LENGTH_BITS /\ cur + 1 \in DOMAIN WORD_LENGTH_BITS
  THEN WORD_LENGTH_BITS[nxt + 1] - WORD_LENGTH_BITS[cur + 1]
  ELSE 0

NoFrame == [nBfu |-> 0, scaleFactorIndices |-> << >>, wordLengthIndices |-> << >>]

\* allocateBits (Lp-RDO) through the heapify of distributeBitsRDO;
\* the encoder calls it with maxBfuCount = bfuCount of groupIntoBFUs = 52
RdoStart ==
  /\ allocPc = "input"
  /\ strategy = "rdo"
  /\ \E n \in { NUM_BFUS } :
     \E sfTable \in { [i \in BfuIndices |->
                         IF i < n /\ BfuSize(i) # 0
                         THEN findScaleFactorRDO(bfuCoefficients(bfuData, i))
                         ELSE 0] } :
     \E hI \in { heapEntries([i \in BfuIndices |->
                                 BfuSize(i) # 0 /\ sfTable[i] # 0
                                   /\ rdoDeltaBits(0, 1) > 0], n) } :
     \E h \in { heapify(hI, [k \in 1 .. Len(hI) |->
                                 rdoPriority(sfTable[hI[k]], 0, 1)]) } :
       /\ usedBFU' = n
       /\ remainingBits' = availableBits(n)
       /\ scaleFactorTable' = sfTable
       /\ wordLengths' = [i \in 0 .. (n - 1) |-> 0]
       /\ heapIndices' = h.idx
       /\ heapPriorities' = h.pri
  /\ allocPc' = "loop"
  /\ UNCHANGED << strategy, bfuData, maskDb, allocSteps, encoded >>
  /\ UNCHANGED allocOthers

\* one iteration of the greedy spending loop of distributeBitsRDO
RdoIter ==
  /\ allocPc = "loop"
  /\ strategy = "rdo"
  /\ remainingBits > 0 /\ Len(heapIndices) > 0
  /\ LET bfu == heapIndices[1]
         cur == wordLengths[bfu]
         nxt == cur + 1
         sz == BfuSize(bfu)
         cost == rdoDeltaBits(cur, nxt) * sz
         popped == popRoot(heapIndices, heapPriorities)
         nxt2 == nxt + 1
         raised == siftDown(heapIndices,
                            [heapPriorities EXCEPT
                               ![1] = rdoPriority(scaleFactorTable[bfu], nxt, nxt2)],
                            0)
     IN IF cost > remainingBits \/ cost <= 0
        THEN /\ heapIndices' = popped.idx
             /\ heapPriorities' = popped.pri
             /\ UNCHANGED << remainingBits, wordLengths >>
        ELSE /\ remainingBits' = remainingBits - cost
             /\ wordLengths' = [wordLengths EXCEPT ![bfu] = nxt]
             /\ IF nxt < MAX_WORD_LENGTH_INDEX /\ rdoDeltaBits(nxt, nxt2) > 0
                THEN heapIndices' = raised.idx /\ heapPriorities' = raised.pri
                ELSE heapIndices' = popped.idx /\ heapPriorities' = popped.pri
  /\ allocSteps' = allocSteps + 1
  /\ UNCHANGED << strategy, bfuData, maskDb, allocPc, usedBFU, scaleFactorTable,
                  encoded >>
  /\ UNCHANGED allocOthers

\* allocateBits (SMR) through the heap construction of distributeBitsGreedy
GreedyStart ==
  /\ allocPc = "input"
  /\ strategy = "greedy"
  /\ \E energyDb \in { [i \in BfuIndices |-> calculateBfuEnergy(bfuData, i)] } :
     \E smr \in { [i \in BfuIndices |-> calculateSMR(bfuData, maskDb, i)] } :
     \E n \in { selectOptimalBfuCount(smr, energyDb, NUM_BFUS) } :
     \E hI \in { heapEntries([i \in BfuIndices |-> smr[i] > NEG_INFINITY], n) } :
     \E h \in { heapify(hI, [k \in 1 .. Len(hI) |-> smr[hI[k]]]) } :
       /\ usedBFU' = n
       /\ remainingBits' = availableBits(n)
       /\ wordLengths' = [i \in 0 .. (n - 1) |-> 0]
       /\ heapIndices' = h.idx
       /\ heapPriorities' = h.pri
  /\ allocPc' = "loop"
  /\ UNCHANGED << strategy, bfuData, maskDb, scaleFactorTable, allocSteps, encoded >>
  /\ UNCHANGED allocOthers

\* one iteration of the allocation loop of distributeBitsGreedy
GreedyIter ==
  /\ allocPc = "loop"
  /\ strategy = "greedy"
  /\ Len(heapIndices) > 0 /\ remainingBits > 0
  /\ LET currentBfu == heapIndices[1]
         currentWordLength == wordLengths[currentBfu]
         bfuSize == BfuSize(currentBfu)
         upgradeCost == WlBits(currentWordLength + 1) * bfuSize
                          - WlBits(currentWordLength) * bfuSize
         popped == popRoot(heapIndices, heapPriorities)
         raised == siftDown(heapIndices,
                            [heapPriorities EXCEPT
                               ![1] = @ + DISTORTION_DELTA_DB[currentWordLength + 1]],
                            0)
     IN IF currentWordLength >= MAX_WORD_LENGTH_INDEX
        THEN /\ heapIndices' = popped.idx
             /\ heapPriorities' = popped.pri
             /\ UNCHANGED << remainingBits, wordLengths >>
        ELSE IF upgradeCost > remainingBits
        THEN /\ heapIndices' = popped.idx
             /\ heapPriorities' = popped.pri
             /\ UNCHANGED << remainingBits, wordLengths >>
        ELSE /\ remainingBits' = remainingBits - upgradeCost
             /\ wordLengths' = [wordLengths EXCEPT ![currentBfu] = currentWordLength + 1]
             /\ heapIndices' = raised.idx
             /\ heapPriorities' = raised.pri
  /\ allocSteps' = allocSteps + 1
  /\ UNCHANGED << strategy, bfuData, maskDb, allocPc, usedBFU, scaleFactorTable,
                  encoded >>
  /\ UNCHANGED allocOthers

\* the loop exits and quantizationStage assembles the frame: the RDO
\* encoder takes the allocator's scale-factor table, the SMR encoder
\* calls findScaleFactor of quantization.js per active BFU
AllocReturn ==
  /\ allocPc = "loop"
  /\ ~ (remainingBits > 0 /\ Len(heapIndices) > 0)
  /\ encoded' =
       [nBfu |-> usedBFU,
        scaleFactorIndices |->
          IF strategy = "rdo" THEN scaleFactorTable
          ELSE [i \in 0 .. (usedBFU - 1) |->
                  findScaleFactor(bfuCoefficients(bfuData, i))],
        wordLengthIndices |-> [i \in 0 .. (usedBFU - 1) |-> wordLengths[i]]]
  /\ allocPc' = "done"
  /\ UNCHANGED << strategy, bfuData, maskDb, usedBFU, remainingBits, wordLengths,
                  scaleFactorTable, heapIndices, heapPriorities, allocSteps >>
  /\ UNCHANGED allocOthers

\* BFU inputs: silence, one level everywhere, ramps over the BFU index, one
\* band only, one BFU only
bandOfBfu(i) == IF i >= BFU_BAND_BOUNDARIES[2] THEN 2
                ELSE IF i >= BFU_BAND_BOUNDARIES[1] THEN 1 ELSE 0

AllocLevels == { 1, 5, 64, 130, 136 }
AllocRamps == { << 10, 2 >>, << 130, -2 >>, << 40, 1 >>, << 136, -3 >> }
AllocBfuInputs ==
  { [i \in BfuIndices |-> 0] }
  \cup { [i \in BfuIndices |-> a] : a \in AllocLevels }
  \cup { [i \in BfuIndices |-> Max(0, Min(136, r[1] + r[2] * i))] : r \in AllocRamps }
  \cup { [i \in BfuIndices |-> IF bandOfBfu(i) = b THEN 100 ELSE 0] : b \in 0 .. 2 }
  \cup { [i \in BfuIndices |-> IF i = k THEN 134 ELSE 0] : k \in { 0, 4, 51 } }
AllocMaskInputs ==
  { [i \in BfuIndices |-> m] : m \in { -13000, -6000, 0, 1000 } }
  \cup { [i \in BfuIndices |-> -12000 + 200 * i] }

(***************************************************************************)
(* Properties of the bit allocation                                        *)
(***************************************************************************)
\* sum over the first n BFUs of WORD_LENGTH_BITS[wl_i] * bfuSize[i]
RECURSIVE dataBits(_, _)
dataBits(wl, n) ==
  IF n = 0 THEN 0
  ELSE WlBits(wl[n - 1]) * BfuSize(n - 1) + dataBits(wl, n - 1)

AllocRunning == allocPc \in { "loop", "done" }

\* C1: the data bits of the word lengths the allocator holds or returns
\* never exceed 1696 - 40 - nBfu * 10, so overhead bits plus data bits of
\* the encoded frame are at most 1696.
C1_BudgetRespected ==
  AllocRunning =>
    /\ dataBits(wordLengths, usedBFU)
         <= FRAME_BITS - FRAME_OVERHEAD_BITS - usedBFU * BITS_PER_BFU_METADATA
    /\ FRAME_OVERHEAD_BITS + usedBFU * BITS_PER_BFU_METADATA
         + dataBits(wordLengths, usedBFU) <= FRAME_BITS
    /\ remainingBits >= 0

\* an allocation that ended because the next upgrade no longer fitted
C1_Witness ==
  /\ allocPc = "done"
  /\ remainingBits > 0
  /\ dataBits(encoded.wordLengthIndices, encoded.nBfu) > 1000
  /\ \E i \in 0 .. (encoded.nBfu - 1) :
        /\ encoded.wordLengthIndices[i] \in 1 .. 14
        /\ remainingBits < BfuSize(i)

AllSilent == \A i \in BfuIndices : bfuData[i] = 0

\* C12: for all-silence input (every BFU all zeros) the allocator spends no
\* bit: every active BFU keeps word-length index 0 and the coefficient bit
\* count of the encoded frame is 0.
C12_SilenceNoBits ==
  (AllocRunning /\ AllSilent) =>
    /\ \A i \in 0 .. (usedBFU - 1) : wordLengths[i] = 0
    /\ dataBits(wordLengths, usedBFU) = 0
    /\ allocPc = "done" =>
         /\ \A i \in 0 .. (encoded.nBfu - 1) : encoded.wordLengthIndices[i] = 0
         /\ dataBits(encoded.wordLengthIndices, encoded.nBfu) = 0

\* a silent frame encoded by the Lp-RDO allocator with its 52 active BFUs
C12_Witness ==
  /\ allocPc = "done"
  /\ AllSilent
  /\ strategy = "rdo"
  /\ encoded.nBfu = NUM_BFUS
  /\ \A i \in 0 .. (encoded.nBfu - 1) : encoded.scaleFactorIndices[i] = 0

\* one iteration of the spending loop of either allocator removes an entry
\* from the heap, or raises the word-length index of one BFU by 1 and
\* lowers the remaining budget
LoopStepProgress ==
  (allocPc = "loop" /\ allocSteps' # allocSteps) =>
    \/ Len(heapIndices') = Len(heapIndices) - 1
    \/ /\ \E bfu \in DOMAIN wordLengths :
            wordLengths' = [wordLengths EXCEPT ![bfu] = @ + 1]
       /\ remainingBits' < remainingBits
       /\ Len(heapIndices') <= Len(heapIndices)

\* the loop was left with the heap empty or the budget spent
LoopLeft ==
  allocPc = "done" => (Len(heapIndices) = 0 \/ remainingBits = 0)

\* C26: the greedy allocation loop terminates for every input; it stops
\* when the heap is empty or the budget is exhausted, and every iteration
\* removes an entry from the heap or raises one BFU's word-length index by
\* 1 while strictly decreasing the remaining budget.
C26_LoopTerminates ==
  /\ [][LoopStepProgress]_vars
  /\ [] LoopLeft
  /\ <>(allocPc = "done")

\* a loop that raised word lengths, removed entries that no longer fitted
\* and ended with bits left over and the heap empty
C26_Witness ==
  /\ allocPc = "done"
  /\ Len(heapIndices) = 0
  /\ remainingBits > 0
  /\ \E i \in DOMAIN wordLengths : wordLengths[i] > 1
  /\ allocSteps > usedBFU

\* C8: the BFU count of every frame the encoder produces is one of
\* 20, 28, 32, 36, 40, 44, 48, 52.
C8_NBfuAllowed ==
  /\ AllocRunning => usedBFU \in { 20, 28, 32, 36, 40, 44, 48, 52 }
  /\ allocPc = "done" => encoded.nBfu \in { 20, 28, 32, 36, 40, 44, 48, 52 }

\* a frame of the SMR encoder whose count came out of the energy fallback
\* for a signal that ends well below the lowest count
C8_Witness ==
  /\ allocPc = "done"
  /\ strategy = "greedy"
  /\ encoded.nBfu = 20
  /\ bfuData[4] # 0
  /\ \A i \in BfuIndices : calculateSMR(bfuData, maskDb, i) <= 0

\* C9: every scale-factor index of an encoded frame lies in 0..63 and every
\* word-length index the allocator holds or returns lies in 0..15.
C9_IndexRanges ==
  /\ AllocRunning => \A i \in DOMAIN wordLengths : wordLengths[i] \in 0 .. 15
  /\ AllocRunning => \A i \in DOMAIN scaleFactorTable : scaleFactorTable[i] \in 0 .. 63
  /\ allocPc = "done" =>
       /\ \A i \in DOMAIN encoded.wordLengthIndices :
             encoded.wordLengthIndices[i] \in 0 .. 15
       /\ \A i \in DOMAIN encoded.scaleFactorIndices :
             encoded.scaleFactorIndices[i] \in 0 .. 63

\* a frame holding a BFU at the top word length whose amplitude lies above
\* the largest scale factor
C9_Witness ==
  /\ allocPc = "done"
  /\ \E i \in DOMAIN encoded.wordLengthIndices :
        /\ encoded.wordLengthIndices[i] = 15
        /\ encoded.scaleFactorIndices[i] = 63
        /\ LgOf(bfuData[i]) > SCALE_FACTORS(63)

(***************************************************************************)
(* Bit operations on non-negative integers                                 *)
(***************************************************************************)
\* 1 << n
RECURSIVE Pow2(_)
Pow2(n) == IF n = 0 THEN 1 ELSE 2 * Pow2(n - 1)

\* (v >> shift) & ((1 << width) - 1); for a negative v this is the field of
\* its two's-complement form, as the 32-bit operators of the code produce
BitField(v, shift, width) == (v \div Pow2(shift)) % Pow2(width)

\* a | b on the low w bits
RECURSIVE BitOr(_, _, _)
BitOr(a, b, w) ==
  IF w = 0 THEN 0
  ELSE (IF a % 2 = 1 \/ b % 2 = 1 THEN 1 ELSE 0)
         + 2 * BitOr(a \div 2, b \div 2, w - 1)

(***************************************************************************)
(* Bitstream (codec/io/bitstream.js).  A buffer is a sequence of bytes;    *)
(* byte index k of the code is position k + 1.                             *)
(***************************************************************************)
RECURSIVE packBitsLoopWholeByte(_, _, _, _, _, _)
packBitsLoopWholeByte(buffer, byteIndex, bitOffset, value, bitCount, bitsWritten) ==
  IF bitsWritten < bitCount /\ byteIndex < Len(buffer)
  THEN LET bitsAvailable == 8 - bitOffset
           bitsToWrite == Min(bitCount - bitsWritten, bitsAvailable)
           shift == bitCount - bitsWritten - bitsToWrite
           valueBits == BitField(value, shift, bitsToWrite)
           low == bitsAvailable - bitsToWrite
           new == valueBits * Pow2(low)
       IN CHOOSE res \in
            { packBitsLoopWholeByte(b, byteIndex + 1, 0, value, bitCount, w) :
                b \in { [buffer EXCEPT ![byteIndex + 1] = new] },
                w \in { bitsWritten + bitsToWrite } } : TRUE
  ELSE buffer

RECURSIVE packBitsLoop(_, _, _, _, _, _)
packBitsLoop(buffer, byteIndex, bitOffset, value, bitCount, bitsWritten) ==
  IF bitsWritten < bitCount /\ byteIndex < Len(buffer)
  THEN LET bitsAvailable == 8 - bitOffset
           bitsToWrite == Min(bitCount - bitsWritten, bitsAvailable)
           shift == bitCount - bitsWritten - bitsToWrite
           valueBits == BitField(value, shift, bitsToWrite)
           low == bitsAvailable - bitsToWrite
           old == buffer[byteIndex + 1]
           \* (buffer[byteIndex] & ~mask) | (valueBits << low)
           new == old - BitField(old, low, bitsToWrite) * Pow2(low)
                    + valueBits * Pow2(low)
       IN CHOOSE res \in
            { packBitsLoop(b, byteIndex + 1, 0, value, bitCount, w) :
                b \in { [buffer EXCEPT ![byteIndex + 1] = new] },
                w \in { bitsWritten + bitsToWrite } } : TRUE
  ELSE buffer

packBits(buffer, bitPosition, value, bitCount) ==
  IF bitCount = 0 THEN buffer
  ELSE CHOOSE res \in
         { packBitsLoop(b, byteIndex, bitOffset, v, bitCount, 0) :
             b \in { buffer }, byteIndex \in { bitPosition \div 8 },
             bitOffset \in { bitPosition % 8 },
             v \in { value % Pow2(bitCount) } } : TRUE

RECURSIVE unpackBitsLoop(_, _, _, _, _, _)
unpackBitsLoop(buffer, byteIndex, bitOffset, bitCount, bitsRead, value) ==
  IF bitsRead < bitCount /\ byteIndex < Len(buffer)
  THEN LET bitsAvailable == 8 - bitOffset
           bitsToRead == Min(bitCount - bitsRead, bitsAvailable)
           bits == BitField(buffer[byteIndex + 1], bitsAvailable - bitsToRead,
                            bitsToRead)
       IN CHOOSE res \in
            { unpackBitsLoop(buffer, byteIndex + 1, 0, bitCount, r, v) :
                r \in { bitsRead + bitsToRead },
                v \in { value * Pow2(bitsToRead) + bits } } : TRUE
  ELSE value

unpackBitsAligned(buffer, bitPosition, bitCount) ==
  IF bitCount = 0 THEN 0
  ELSE unpackBitsLoop(buffer, bitPosition \div 8, 0, bitCount, 0, 0)

unpackBits(buffer, bitPosition, bitCount) ==
  IF bitCount = 0 THEN 0
  ELSE unpackBitsLoop(buffer, bitPosition \div 8, bitPosition % 8, bitCount, 0, 0)

unpackSignedBitsNoSign(buffer, bitPosition, bitCount) ==
  unpackBits(buffer, bitPosition, bitCount)

unpackSignedBits(buffer, bitPosition, bitCount) ==
  LET value == unpackBits(buffer, bitPosition, bitCount)
      signBit == Pow2(bitCount - 1)
  IN IF value >= signBit THEN value - Pow2(bitCount) ELSE value

(***************************************************************************)
(* Frame serialization (codec/io/serialization.js).  A frame is a record   *)
(* nBfu, blockSizeMode (sequence of 3), wordLengthIndices and              *)
(* scaleFactorIndices (functions of the BFU index from 0) and              *)
(* quantizedCoefficients (function of the BFU index to sequences).         *)
(***************************************************************************)
\* BFU_AMOUNTS.indexOf(nBfu): -1 when absent
RECURSIVE indexOfAmount(_, _)
indexOfAmount(nBfu, k) ==
  IF k > Len(BFU_AMOUNTS) THEN -1
  ELSE IF BFU_AMOUNTS[k] = nBfu THEN k - 1
  ELSE indexOfAmount(nBfu, k + 1)

frameHeaderNoAmount(frame) ==
  LET f0 == ((2 - frame.blockSizeMode[1]) * 16384) % 65536
      f1 == ((2 - frame.blockSizeMode[2]) * 4096) % 65536
      f2 == ((3 - frame.blockSizeMode[3]) * 1024) % 65536
  IN BitOr(BitOr(f0, f1, 16), f2, 16)

\* the 16 bits view.setUint16 stores for the header expression
frameHeader(frame) ==
  LET bfuIndex == indexOfAmount(frame.nBfu, 1)
      f0 == ((2 - frame.blockSizeMode[1]) * 16384) % 65536
      f1 == ((2 - frame.blockSizeMode[2]) * 4096) % 65536
      f2 == ((3 - frame.blockSizeMode[3]) * 1024) % 65536
      f3 == (bfuIndex * 32) % 65536
  IN BitOr(BitOr(f0, f1, 16), BitOr(f2, f3, 16), 16)

\* The loops below run their iterations in order; an operator takes the
\* range of iterations i .. nBfu - 1 (j .. end - 1) and runs it as its first
\* half followed by its second half on the state the first half left.

\* the two fixed-width loops of serializeFrame: width bits of values[i] for
\* each i below nBfu
RECURSIVE packIndices(_, _, _, _, _, _)
packIndices(buffer, bitPosition, values, width, nBfu, i) ==
  IF i >= nBfu THEN [buffer |-> buffer, bitPosition |-> bitPosition]
  ELSE IF nBfu - i = 1
  THEN [buffer |-> packBits(buffer, bitPosition, values[i], width),
        bitPosition |-> bitPosition + width]
  ELSE CHOOSE res \in
         { packIndices(st.buffer, st.bitPosition, values, width, nBfu,
                       (i + nBfu) \div 2) :
             st \in { packIndices(buffer, bitPosition, values, width,
                                  (i + nBfu) \div 2, i) } } : TRUE

\* for (const coefficient of coefficients) packBits(...): the coefficients
\* j .. end of the BFU
RECURSIVE packCoefficients(_, _, _, _, _, _)
packCoefficients(buffer, bitPosition, coefficients, bitsPerSample, j, end) ==
  IF j > end THEN [buffer |-> buffer, bitPosition |-> bitPosition]
  ELSE IF j = end
  THEN LET coefficient == coefficients[j]
           value == IF coefficient < 0 THEN coefficient + Pow2(bitsPerSample)
                    ELSE coefficient
       IN [buffer |-> packBits(buffer, bitPosition, value, bitsPerSample),
           bitPosition |-> bitPosition + bitsPerSample]
  ELSE CHOOSE res \in
         { packCoefficients(st.buffer, st.bitPosition, coefficients,
                            bitsPerSample, (j + end) \div 2 + 1, end) :
             st \in { packCoefficients(buffer, bitPosition, coefficients,
                                       bitsPerSample, j, (j + end) \div 2) } } :
         TRUE

\* the BFUs i .. end - 1 of the coefficient loop of serializeFrame
RECURSIVE packBfus(_, _, _, _, _)
packBfus(buffer, bitPosition, frame, i, end) ==
  IF i >= end THEN [buffer |-> buffer, bitPosition |-> bitPosition]
  ELSE IF end - i = 1
  THEN LET bitsPerSample == WlBits(frame.wordLengthIndices[i])
       IN IF bitsPerSample > 0
          THEN packCoefficients(buffer, bitPosition,
                 frame.quantizedCoefficients[i], bitsPerSample, 1,
                 Len(frame.quantizedCoefficients[i]))
          ELSE [buffer |-> buffer, bitPosition |-> bitPosition]
  ELSE CHOOSE res \in
         { packBfus(st.buffer, st.bitPosition, frame, (i + end) \div 2, end) :
             st \in { packBfus(buffer, bitPosition, frame, i,
                               (i + end) \div 2) } } : TRUE

\* the two fixed-width loops of deserializeFrame
RECURSIVE unpackIndices(_, _, _, _, _, _)
unpackIndices(buffer, bitPosition, width, nBfu, i, acc) ==
  IF i >= nBfu THEN [values |-> acc, bitPosition |-> bitPosition]
  ELSE IF nBfu - i = 1
  THEN [values |-> Append(acc, unpackBits(buffer, bitPosition, width)),
        bitPosition |-> bitPosition + width]
  ELSE CHOOSE res \in
         { unpackIndices(buffer, st.bitPosition, width, nBfu,
                         (i + nBfu) \div 2, st.values) :
             st \in { unpackIndices(buffer, bitPosition, width,
                                    (i + nBfu) \div 2, i, acc) } } : TRUE

RECURSIVE unpackCoefficients(_, _, _, _, _, _)
unpackCoefficients(buffer, bitPosition, bitsPerSample, bfuSize, j, acc) ==
  IF j >= bfuSize THEN [values |-> acc, bitPosition |-> bitPosition]
  ELSE IF bfuSize - j = 1
  THEN [values |-> Append(acc, unpackSignedBits(buffer, bitPosition,
                                                bitsPerSample)),
        bitPosition |-> bitPosition + bitsPerSample]
  ELSE CHOOSE res \in
         { unpackCoefficients(buffer, st.bitPosition, bitsPerSample, bfuSize,
                              (j + bfuSize) \div 2, st.values) :
             st \in { unpackCoefficients(buffer, bitPosition, bitsPerSample,
                                         (j + bfuSize) \div 2, j, acc) } } :
         TRUE

RECURSIVE unpackBfus(_, _, _, _, _, _)
unpackBfus(buffer, bitPosition, wordLengthIndices, nBfu, i, acc) ==
  IF i >= nBfu THEN [values |-> acc, bitPosition |-> bitPosition]
  ELSE IF nBfu - i = 1
  THEN LET bitsPerSample == WlBits(wordLengthIndices[i + 1])
           bfuSize == BfuSize(i)
       IN CHOOSE res \in
            { [values |-> Append(acc, st.values),
               bitPosition |-> st.bitPosition] :
                st \in { IF bitsPerSample > 0
                         THEN unpackCoefficients(buffer, bitPosition,
                                bitsPerSample, bfuSize, 0, << >>)
                         ELSE [values |-> [k \in 1 .. bfuSize |-> 0],
                               bitPosition |-> bitPosition] } } : TRUE
  ELSE CHOOSE res \in
         { unpackBfus(buffer, st.bitPosition, wordLengthIndices, nBfu,
                      (i + nBfu) \div 2, st.values) :
             st \in { unpackBfus(buffer, bitPosition, wordLengthIndices,
                                 (i + nBfu) \div 2, i, acc) } } : TRUE

\* a sequence as the zero-based array it stands for
ZeroBased(sq) == [i \in 0 .. (Len(sq) - 1) |-> sq[i + 1]]

NoBuffer == << >>
SerNoFrame ==
  [nBfu |-> 0, blockSizeMode |-> << 0, 0, 0 >>, scaleFactorIndices |-> << >>,
   wordLengthIndices |-> << >>, quantizedCoefficients |-> << >>]

\* serializeFrame
Serialize ==
  /\ serPc = "frame"
  /\ \E header \in { frameHeader(frameData) } :
     \E wls \in { packIndices(<< header \div 256, header % 256 >>
                                \o [k \in 1 .. (SOUND_UNIT_SIZE - 2) |-> 0],
                              FRAME_HEADER_BITS, frameData.wordLengthIndices,
                              FRAME_WORD_LENGTH_BITS, frameData.nBfu, 0) } :
     \E sfs \in { packIndices(wls.buffer, wls.bitPosition,
                              frameData.scaleFactorIndices,
                              FRAME_SCALE_FACTOR_BITS, frameData.nBfu, 0) } :
     \E coefs \in { packBfus(sfs.buffer, sfs.bitPosition, frameData, 0,
                            frameData.nBfu) } :
       /\ soundUnit' = [coefs.buffer EXCEPT ![SOUND_UNIT_SIZE - 2] = 0,
                                         ![SOUND_UNIT_SIZE - 1] = 0,
                                         ![SOUND_UNIT_SIZE] = 0]
       /\ serBitPosition' = coefs.bitPosition
  /\ serPc' = "unit"
  /\ UNCHANGED << frameData, deserialized >>
  /\ UNCHANGED serOthers

invalidFrameSizeShort(buffer) == Len(buffer) < SOUND_UNIT_SIZE

\* buffer.length !== SOUND_UNIT_SIZE
invalidFrameSize(buffer) == Len(buffer) # SOUND_UNIT_SIZE

\* deserializeFrame
Deserialize ==
  /\ serPc = "unit"
  /\ IF invalidFrameSize(soundUnit)
     THEN /\ serPc' = "error"
          /\ UNCHANGED << serBitPosition, deserialized >>
     ELSE \E header \in { soundUnit[1] * 256 + soundUnit[2] } :
          \E nBfu \in { BFU_AMOUNTS[BitField(header, 5, 3) + 1] } :
          \E wls \in { unpackIndices(soundUnit, FRAME_HEADER_BITS,
                                     FRAME_WORD_LENGTH_BITS, nBfu, 0, << >>) } :
          \E sfs \in { unpackIndices(soundUnit, wls.bitPosition,
                                     FRAME_SCALE_FACTOR_BITS, nBfu, 0, << >>) } :
          \E coefs \in { unpackBfus(soundUnit, sfs.bitPosition, wls.values, nBfu,
                                    0, << >>) } :
            /\ deserialized' =
                 [nBfu |-> nBfu,
                  blockSizeMode |-> << 2 - BitField(header, 14, 2),
                                       2 - BitField(header, 12, 2),
                                       3 - BitField(header, 10, 2) >>,
                  scaleFactorIndices |-> ZeroBased(sfs.values),
                  wordLengthIndices |-> ZeroBased(wls.values),
                  quantizedCoefficients |-> ZeroBased(coefs.values)]
            /\ serBitPosition' = coefs.bitPosition
            /\ serPc' = "frame read"
  /\ UNCHANGED << frameData, soundUnit >>
  /\ UNCHANGED serOthers

\* Frames handed to serializeFrame.  Block modes, BFU counts and contents
\* are drawn from families that contain frames of the encoder and frames no
\* encoder produces (a count outside BFU_AMOUNTS, a mode outside its field,
\* a coefficient wider than its field, more bits than the budget).
SerModes ==
  { << 0, 0, 0 >>, << 2, 2, 3 >>, << 0, 2, 0 >>, << 1, 1, 1 >>, << 2, 0, 3 >>,
    << 3, 0, 0 >> }
SerCounts == { 0, 20, 28, 32, 36, 40, 44, 48, 52 }
SerWlPatterns == { "none", "two", "ramp", "last", "exact", "past", "four", "odd" }
SerSfPatterns == { "zero", "top", "ramp", "down" }
SerCoefPatterns == { "min", "max", "alt", "ones", "mix", "wide" }

wlPattern(p, n, i) ==
  CASE p = "none" -> 0
    [] p = "two" -> 1
    [] p = "ramp" -> IF i < 8 THEN 15 - i ELSE 0
    [] p = "last" -> IF i = n - 1 THEN 15 ELSE 0
    [] p = "exact" -> IF i = 0 THEN 15 ELSE 1
    [] p = "past" -> IF i = 0 THEN 15 ELSE IF i = 1 THEN 2 ELSE 1
    [] p = "four" -> 3
    [] p = "odd" -> IF i = n - 1 THEN 2 ELSE 0

sfPattern(p, i) ==
  CASE p = "zero" -> 0
    [] p = "top" -> 63
    [] p = "ramp" -> i
    [] p = "down" -> 63 - i

\* the j-th coefficient of BFU i for a field of bits bits; a BFU without
\* bits may still carry values
coefPattern(p, i, j, bits) ==
  IF bits = 0
  THEN CASE p \in { "min", "max", "alt" } -> 0
         [] p = "ones" -> -1
         [] p \in { "mix", "wide" } -> j
  ELSE CASE p = "min" -> - Pow2(bits - 1)
         [] p = "max" -> Pow2(bits - 1) - 1
         [] p = "alt" -> IF j % 2 = 0 THEN - Pow2(bits - 1) ELSE Pow2(bits - 1) - 1
         [] p = "ones" -> -1
         [] p = "mix" -> ((31 * i + 17 * j) % Pow2(bits)) - Pow2(bits - 1)
         [] p = "wide" -> Pow2(bits - 1)

SerFrame(n, modes, wp, sp, cp) ==
  [nBfu |-> n,
   blockSizeMode |-> modes,
   scaleFactorIndices |-> [i \in 0 .. (n - 1) |-> sfPattern(sp, i)],
   wordLengthIndices |-> [i \in 0 .. (n - 1) |-> wlPattern(wp, n, i)],
   quantizedCoefficients |->
     [i \in 0 .. (n - 1) |->
        [j \in 1 .. BfuSize(i) |->
           coefPattern(cp, i, j, WlBits(wlPattern(wp, n, i)))]]]

\* the frame of the serialization tests, every BFU with an array of 10
\* coefficients, and the same frame with SPECS_PER_BFU[i] coefficients in
\* BFU i
mockFrame(sizes) ==
  [nBfu |-> NUM_BFUS,
   blockSizeMode |-> << 0, 0, 0 >>,
   scaleFactorIndices |-> [i \in 0 .. (NUM_BFUS - 1) |-> 10],
   wordLengthIndices |-> [i \in 0 .. (NUM_BFUS - 1) |-> 8],
   quantizedCoefficients |->
     [i \in 0 .. (NUM_BFUS - 1) |->
        SubSeq([j \in 1 .. sizes[i + 1] |-> 123], 1, sizes[i + 1])]]

createMockFrameData == mockFrame([i \in 1 .. NUM_BFUS |-> 10])

MockFrames == { createMockFrameData, mockFrame(SPECS_PER_BFU) }

SerFrames ==
  { SerFrame(n, modes, "ramp", "ramp", "mix") : n \in SerCounts, modes \in SerModes }
  \cup { SerFrame(NUM_BFUS, << 0, 2, 0 >>, wp, sp, cp) :
           wp \in SerWlPatterns, sp \in SerSfPatterns, cp \in SerCoefPatterns }
  \cup MockFrames

\* Buffers handed to deserializeFrame that no serializeFrame made: buffers of
\* another length, and 212-byte buffers with every BFU amount index in the
\* header and zero, 0xff, 0xa5 or mixed contents
RawLengths == { 0, 100, SOUND_UNIT_SIZE - 1, SOUND_UNIT_SIZE + 1, 2 * SOUND_UNIT_SIZE }
RawFills == { "zero", "ones", "a5", "mix" }
rawByte(fill, k) ==
  CASE fill = "zero" -> 0
    [] fill = "ones" -> 255
    [] fill = "a5" -> 165
    [] fill = "mix" -> (37 * k + 11) % 256

RawUnits ==
  { SubSeq([k \in 1 .. len |-> rawByte(fill, k)], 1, len) :
      len \in RawLengths, fill \in { "zero", "ones" } }
  \cup { << h1, 32 * b + 31 >>
           \o SubSeq([k \in 1 .. (SOUND_UNIT_SIZE - 2) |-> rawByte(fill, k)],
                     1, SOUND_UNIT_SIZE - 2) :
           h1 \in { 0, 255, 100 }, b \in 0 .. 7, fill \in RawFills }

(***************************************************************************)
(* Properties of the serialization                                         *)
(***************************************************************************)
\* the frames C2 speaks of: an allowed BFU count, block modes inside their
\* header fields, indices inside their fields, SPECS_PER_BFU[i] coefficients
\* per BFU that fit the word length, data bits within the budget
ValidFrame(F) ==
  /\ F.nBfu \in { BFU_AMOUNTS[k] : k \in DOMAIN BFU_AMOUNTS }
  /\ F.blockSizeMode[1] \in 0 .. 2
  /\ F.blockSizeMode[2] \in 0 .. 2
  /\ F.blockSizeMode[3] \in 0 .. 3
  /\ \A i \in 0 .. (F.nBfu - 1) :
       /\ F.wordLengthIndices[i] \in 0 .. MAX_WORD_LENGTH_INDEX
       /\ F.scaleFactorIndices[i] \in 0 .. 63
       /\ Len(F.quantizedCoefficients[i]) = BfuSize(i)
       /\ LET bits == WlBits(F.wordLengthIndices[i])
          IN bits > 0 =>
               \A j \in 1 .. BfuSize(i) :
                 /\ F.quantizedCoefficients[i][j] >= - Pow2(bits - 1)
                 /\ F.quantizedCoefficients[i][j] <= Pow2(bits - 1) - 1
  /\ dataBits(F.wordLengthIndices, F.nBfu)
       <= FRAME_BITS - FRAME_OVERHEAD_BITS - F.nBfu * BITS_PER_BFU_METADATA

\* G is F up to the coefficients of BFUs without bits, which read as zeros
SameFrame(F, G) ==
  /\ G.nBfu = F.nBfu
  /\ G.blockSizeMode = F.blockSizeMode
  /\ \A i \in 0 .. (F.nBfu - 1) :
       /\ G.wordLengthIndices[i] = F.wordLengthIndices[i]
       /\ G.scaleFactorIndices[i] = F.scaleFactorIndices[i]
       /\ IF WlBits(F.wordLengthIndices[i]) = 0
          THEN \A j \in DOMAIN G.quantizedCoefficients[i] :
                 G.quantizedCoefficients[i][j] = 0
          ELSE G.quantizedCoefficients[i] = F.quantizedCoefficients[i]

\* C2: deserializeFrame(serializeFrame(F)) equals F for every valid frame F
\* in BFU count, block modes, scale-factor indices, word-length indices and
\* every coefficient, BFUs with word-length index 0 reading as zeros.
C2_RoundTrip ==
  (serPc = "frame read" /\ ValidFrame(frameData)) => SameFrame(frameData, deserialized)

\* a valid frame of 52 BFUs read back, with negative coefficients at the
\* widest field and BFUs without bits that carried values
C2_Witness ==
  /\ serPc = "frame read"
  /\ ValidFrame(frameData)
  /\ frameData.nBfu = NUM_BFUS
  /\ frameData.blockSizeMode = << 2, 2, 3 >>
  /\ frameData.wordLengthIndices[0] = MAX_WORD_LENGTH_INDEX
  /\ \E j \in 1 .. BfuSize(0) : frameData.quantizedCoefficients[0][j] < 0
  /\ frameData.wordLengthIndices[51] = 0
  /\ frameData.quantizedCoefficients[51][1] # 0
  /\ deserialized.quantizedCoefficients[51][1] = 0

\* the number of coefficients deserializeFrame has read before BFU i
coefficientsBefore(i) == SeqSum(SPECS_PER_BFU, i)

\* the coefficient fields of the mock frame that lie wholly in the bytes
\* serializeFrame does not zero at the end
mockFieldsKept ==
  (8 * (SOUND_UNIT_SIZE - 3) - FRAME_HEADER_BITS
     - NUM_BFUS * (FRAME_WORD_LENGTH_BITS + FRAME_SCALE_FACTOR_BITS))
    \div WlBits(8)

\* the sound unit of a mock frame has 212 bytes, not all of them zero
MockUnitMade ==
  /\ Len(soundUnit) = SOUND_UNIT_SIZE
  /\ \E k \in 1 .. Len(soundUnit) : soundUnit[k] # 0

\* the mock frame of the tests round-trips exactly, every coefficient
\* included (the statement C22 corrects)
C22_MockFrameRoundTrip ==
  (frameData \in MockFrames /\ serPc = "frame read") =>
    /\ MockUnitMade
    /\ deserialized.nBfu = frameData.nBfu
    /\ deserialized.blockSizeMode = frameData.blockSizeMode
    /\ \A i \in 0 .. (NUM_BFUS - 1) :
         /\ deserialized.wordLengthIndices[i] = frameData.wordLengthIndices[i]
         /\ deserialized.scaleFactorIndices[i] = frameData.scaleFactorIndices[i]
         /\ deserialized.quantizedCoefficients[i]
              = frameData.quantizedCoefficients[i]

\* C22: serializing the mock frame yields 212 bytes that are not all zero,
\* and deserializeFrame of them returns its BFU count, block modes,
\* scale-factor indices and word-length indices exactly, and of the
\* coefficients the first 126 in stream order as 123 and the others as 0.
C22_MockFrameHeadRoundTrip ==
  frameData \in MockFrames =>
    /\ serPc \in { "unit", "frame read" } => MockUnitMade
    /\ serPc = "frame read" =>
         /\ deserialized.nBfu = frameData.nBfu
         /\ deserialized.blockSizeMode = frameData.blockSizeMode
         /\ \A i \in 0 .. (NUM_BFUS - 1) :
              /\ deserialized.wordLengthIndices[i]
                   = frameData.wordLengthIndices[i]
              /\ deserialized.scaleFactorIndices[i]
                   = frameData.scaleFactorIndices[i]
              /\ Len(deserialized.quantizedCoefficients[i]) = BfuSize(i)
              /\ \A j \in 1 .. BfuSize(i) :
                   deserialized.quantizedCoefficients[i][j] =
                     IF coefficientsBefore(i) + j <= mockFieldsKept
                     THEN 123 ELSE 0

\* the mock frame of the tests written and read back, the coefficient
\* fields running past the end of the unit
C22_Witness ==
  /\ serPc = "frame read"
  /\ frameData = createMockFrameData
  /\ serBitPosition > FRAME_BITS
  /\ mockFieldsKept = 126
  /\ deserialized.quantizedCoefficients[0][1] = 123

\* C15: deserializeFrame fails exactly when the buffer length is not 212
\* bytes, shorter or longer, and for every 212-byte buffer it returns a frame
\* (an allowed BFU count, that many indices and coefficient arrays).
C15_SizeChecked ==
  /\ serPc = "error" => Len(soundUnit) # SOUND_UNIT_SIZE
  /\ serPc = "frame read" =>
        /\ Len(soundUnit) = SOUND_UNIT_SIZE
        /\ deserialized.nBfu \in { BFU_AMOUNTS[k] : k \in DOMAIN BFU_AMOUNTS }
        /\ DOMAIN deserialized.wordLengthIndices = 0 .. (deserialized.nBfu - 1)
        /\ DOMAIN deserialized.scaleFactorIndices = 0 .. (deserialized.nBfu - 1)
        /\ \A i \in 0 .. (deserialized.nBfu - 1) :
              Len(deserialized.quantizedCoefficients[i]) = BfuSize(i)
  /\ (serPc = "unit" /\ Len(soundUnit) = SOUND_UNIT_SIZE) =>
        ENABLED (Deserialize /\ serPc' = "frame read")
  /\ (serPc = "unit" /\ Len(soundUnit) # SOUND_UNIT_SIZE) =>
        ENABLED (Deserialize /\ serPc' = "error")

\* a 212-byte buffer of 0xff bytes, whose word lengths ask for more bits
\* than the buffer has, read without failing
C15_Witness ==
  /\ serPc = "frame read"
  /\ frameData = SerNoFrame
  /\ \A k \in 1 .. SOUND_UNIT_SIZE : soundUnit[k] = 255
  /\ deserialized.nBfu = NUM_BFUS
  /\ serBitPosition > FRAME_BITS

(***************************************************************************)
(* Quantization (codec/coding/quantization.js) and the decoder's           *)
(* dequantization stage (codec/pipeline/decoder.js)                        *)
(***************************************************************************)
\* 2^(-m/6) for m = 0..5 in units of 1/1024: the ratio of a coefficient to
\* a scale factor is a power of two times one of these
SixthRootScaled == << 1024, 912, 813, 724, 645, 575 >>

\* Math.round(coefficient * (quantRange / SCALE_FACTORS[scaleFactorIndex])),
\* the product taken on the grid in fixed point.  Math.round(n/d) is
\* floor((2n + d) / 2d); below 2^-16 of the scale factor the product is
\* under one half for every quantRange and rounds to zero.
roundNormalized(c, scaleFactorIndex, quantRange) ==
  IF c = 0 THEN 0
  ELSE LET k == LgOf(c) - SCALE_FACTORS(scaleFactorIndex)
           e == - ((- k) \div 6)
           m == 6 * e - k
           sign == IF c < 0 THEN -1 ELSE 1
           num == sign * quantRange * SixthRootScaled[m + 1]
                    * (IF e > 0 THEN Pow2(e) ELSE 1)
           den == 1024 * (IF e < 0 THEN Pow2(- e) ELSE 1)
       IN IF e < -15 THEN 0 ELSE (2 * num + den) \div (2 * den)

quantizeUnclipped(coefficients, scaleFactorIndex, bitsPerSample) ==
  IF bitsPerSample = 0 \/ scaleFactorIndex = 0
  THEN [j \in 1 .. Len(coefficients) |-> 0]
  ELSE LET quantRange == Pow2(bitsPerSample - QUANTIZATION_SIGN_BIT_SHIFT) - 1
       IN [j \in 1 .. Len(coefficients) |->
             roundNormalized(coefficients[j], scaleFactorIndex, quantRange)]

quantize(coefficients, scaleFactorIndex, bitsPerSample) ==
  IF bitsPerSample = 0 \/ scaleFactorIndex = 0
  THEN [j \in 1 .. Len(coefficients) |-> 0]
  ELSE LET quantRange == Pow2(bitsPerSample - QUANTIZATION_SIGN_BIT_SHIFT) - 1
       IN [j \in 1 .. Len(coefficients) |->
             Max(- quantRange - 1,
                 Min(quantRange,
                     roundNormalized(coefficients[j], scaleFactorIndex,
                                     quantRange)))]

\* A reconstructed coefficient quantized * (scaleFactor / quantRange) is kept
\* as its three factors; it is zero exactly when mant is 0.
ZeroCoefficient == [mant |-> 0, sfi |-> 0, range |-> 1]
IsZero(v) == v.mant = 0

dequantizeAlways(quantized, scaleFactorIndex, bitsPerSample) ==
  LET quantRange == Pow2(bitsPerSample - QUANTIZATION_SIGN_BIT_SHIFT) - 1
  IN [j \in 1 .. Len(quantized) |->
        [mant |-> quantized[j], sfi |-> scaleFactorIndex, range |-> quantRange]]

dequantize(quantized, scaleFactorIndex, bitsPerSample) ==
  IF bitsPerSample = 0 \/ scaleFactorIndex = 0
  THEN [j \in 1 .. Len(quantized) |-> ZeroCoefficient]
  ELSE LET quantRange == Pow2(bitsPerSample - QUANTIZATION_SIGN_BIT_SHIFT) - 1
       IN [j \in 1 .. Len(quantized) |->
             IF quantized[j] = 0 THEN ZeroCoefficient
             ELSE [mant |-> quantized[j], sfi |-> scaleFactorIndex,
                   range |-> quantRange]]

\* position of BFU bfu in the 512 coefficients for the frame's block modes
bfuPosition(blockSizeMode, bfu) ==
  LET isLongBlock == blockSizeMode[bandOfBfu(bfu) + 1] = 0
  IN IF isLongBlock THEN BFU_START_LONG[bfu + 1] ELSE BFU_START_SHORT[bfu + 1]

\* TypedArray.prototype.set(source, offset) on a zero-based array kept as a
\* sequence
typedArraySet(target, source, offset) ==
  SubSeq(target, 1, offset) \o source
    \o SubSeq(target, offset + Len(source) + 1, Len(target))

\* the loop of dequantizationStage, BFUs bfu .. end - 1
RECURSIVE dequantizeBfus(_, _, _, _)
dequantizeBfus(coefficients, frame, bfu, end) ==
  IF bfu >= end THEN coefficients
  ELSE IF end - bfu = 1
  THEN LET bitsPerSample == WlBits(frame.wordLengthIndices[bfu])
           position == bfuPosition(frame.blockSizeMode, bfu)
       IN IF bitsPerSample > 0
          THEN typedArraySet(coefficients,
                 dequantize(frame.quantizedCoefficients[bfu],
                            frame.scaleFactorIndices[bfu], bitsPerSample),
                 position)
          ELSE coefficients
  ELSE CHOOSE res \in
         { dequantizeBfus(c, frame, (bfu + end) \div 2, end) :
             c \in { dequantizeBfus(coefficients, frame, bfu,
                                    (bfu + end) \div 2) } } : TRUE

\* the loop of the encoder's quantizationStage over the selected BFUs: the
\* SMR encoder searches the scale factor per BFU, the RDO encoder takes the
\* allocator's table
Quantize ==
  /\ quantPc = "bfus"
  /\ serPc = "idle"
  /\ \E n \in { quantInput.nBfu } :
     \E sfs \in { [bfu \in 0 .. (n - 1) |->
                     IF quantInput.strategy = "rdo"
                     THEN findScaleFactorRDO(quantInput.bfuData[bfu])
                     ELSE findScaleFactor(quantInput.bfuData[bfu])] } :
       frameData' =
         [nBfu |-> n,
          blockSizeMode |-> quantInput.blockModes,
          scaleFactorIndices |-> sfs,
          wordLengthIndices |-> quantInput.allocation,
          quantizedCoefficients |->
            [bfu \in 0 .. (n - 1) |->
               quantize(quantInput.bfuData[bfu], sfs[bfu],
                        WlBits(quantInput.allocation[bfu]))]]
  /\ quantPc' = "quantized"
  /\ serPc' = "frame"
  /\ UNCHANGED << quantInput, decoderFrame, decodedCoefficients >>
  /\ UNCHANGED << soundUnit, serBitPosition, deserialized >>
  /\ UNCHANGED quantOthers

\* the values a caller of the decoder hands over for the BFUs without bits
\* or with scale-factor index 0: those of the deserializer or any others
StoredPatterns == { "read", "ones", "low" }
storedCoefficient(g, read, j) ==
  CASE g = "read" -> read
    [] g = "ones" -> 1
    [] g = "low" -> - j

withStored(frame, g) ==
  [frame EXCEPT !.quantizedCoefficients =
     [bfu \in 0 .. (frame.nBfu - 1) |->
        IF frame.wordLengthIndices[bfu] = 0 \/ frame.scaleFactorIndices[bfu] = 0
        THEN [j \in 1 .. Len(frame.quantizedCoefficients[bfu]) |->
                storedCoefficient(g, frame.quantizedCoefficients[bfu][j], j)]
        ELSE frame.quantizedCoefficients[bfu]]]

\* dequantizationStage on the frame read from the sound unit
Dequantize ==
  /\ quantPc = "quantized"
  /\ serPc = "frame read"
  /\ \E g \in StoredPatterns :
     \E frame \in { withStored(deserialized, g) } :
       /\ decoderFrame' = frame
       /\ decodedCoefficients' =
            dequantizeBfus([k \in 1 .. SAMPLES_PER_FRAME |-> ZeroCoefficient],
                           frame, 0, frame.nBfu)
  /\ quantPc' = "decoded"
  /\ UNCHANGED quantInput
  /\ UNCHANGED << serVars, quantOthers >>

\* Inputs of the quantization stage: coefficient codes per BFU, block modes
\* and an allocation within the bit budget
signOf(j) == IF j % 2 = 0 THEN -1 ELSE 1
QuantDataPatterns == { "zero", "tiny", "mid", "full", "over", "sparse" }
quantCode(p, i, j) ==
  CASE p = "zero" -> 0
    [] p = "tiny" -> signOf(j) * (1 + ((i + j) % 3))
    [] p = "mid" -> signOf(j) * (40 + ((5 * i + 3 * j) % 60))
    [] p = "full" -> signOf(j) * (130 - ((i + 2 * j) % 24))
    [] p = "over" -> signOf(i + j) * (140 - (j % 8))
    [] p = "sparse" -> IF i % 4 = 0 THEN signOf(j) * (40 + ((5 * i + 3 * j) % 60))
                       ELSE 0

QuantWlPatterns == { "two", "ramp", "last", "exact" }
QuantModes == { << 0, 0, 0 >>, << 2, 2, 3 >>, << 0, 2, 0 >> }
QuantCases ==
  { << "rdo", NUM_BFUS >> } \cup { << "search", n >> : n \in { 20, 36, 52 } }

QuantInput(case, modes, dp, wp) ==
  [strategy |-> case[1],
   nBfu |-> case[2],
   blockModes |-> modes,
   bfuData |-> [i \in 0 .. (case[2] - 1) |->
                  [j \in 1 .. BfuSize(i) |-> quantCode(dp, i, j)]],
   allocation |-> [i \in 0 .. (case[2] - 1) |-> wlPattern(wp, case[2], i)]]

QuantInputs ==
  { QuantInput(case, modes, dp, wp) :
      case \in QuantCases, modes \in QuantModes, dp \in QuantDataPatterns,
      wp \in QuantWlPatterns }

NoQuantInput ==
  [strategy |-> "search", nBfu |-> 0, blockModes |-> << 0, 0, 0 >>,
   bfuData |-> << >>, allocation |-> << >>]

(***************************************************************************)
(* Properties of the quantization                                          *)
(***************************************************************************)
\* C3: a BFU whose scale-factor index is 0 or whose word-length index is 0
\* has only zero coefficients on both paths: the quantization stage emits
\* zeros for it, and the dequantization stage leaves its 512-array region at
\* zero whatever coefficient values the frame stores for it.
C3_ZeroBfus ==
  /\ quantPc \in { "quantized", "decoded" } =>
       \A bfu \in 0 .. (frameData.nBfu - 1) :
         (frameData.scaleFactorIndices[bfu] = 0
            \/ frameData.wordLengthIndices[bfu] = 0) =>
           \A j \in 1 .. BfuSize(bfu) :
             frameData.quantizedCoefficients[bfu][j] = 0
  /\ quantPc = "decoded" =>
       \A bfu \in 0 .. (decoderFrame.nBfu - 1) :
         (decoderFrame.scaleFactorIndices[bfu] = 0
            \/ decoderFrame.wordLengthIndices[bfu] = 0) =>
           \A k \in 1 .. BfuSize(bfu) :
             IsZero(decodedCoefficients[
                      bfuPosition(decoderFrame.blockSizeMode, bfu) + k])

\* a decoded frame with non-zero input under scale-factor index 0, and with
\* non-zero stored values in a BFU of scale-factor index 0 and in a BFU
\* without bits
C3_Witness ==
  /\ quantPc = "decoded"
  /\ \E b1, b2 \in 0 .. (decoderFrame.nBfu - 1) :
       /\ decoderFrame.scaleFactorIndices[b1] = 0
       /\ decoderFrame.wordLengthIndices[b1] > 0
       /\ decoderFrame.quantizedCoefficients[b1][1] # 0
       /\ quantInput.bfuData[b1][1] # 0
       /\ decoderFrame.wordLengthIndices[b2] = 0
       /\ decoderFrame.quantizedCoefficients[b2][1] # 0
       /\ quantInput.bfuData[b2][1] # 0

\* C11: findScaleFactor, in the quantization module and in the bit
\* allocation module, returns the smallest index i with SCALE_FACTORS[i] >=
\* max|coefficient| (for amplitudes the table reaches), and 0 when all the
\* coefficients are zero.
C11_SmallestScaleFactor ==
  quantPc \in { "quantized", "decoded" } =>
    \A bfu \in 0 .. (frameData.nBfu - 1) :
      LET amp == maxAmplitude(quantInput.bfuData[bfu])
          sfi == frameData.scaleFactorIndices[bfu]
      IN /\ amp = 0 => sfi = 0
         /\ (amp # 0 /\ LgOf(amp) <= SCALE_FACTORS(63)) =>
              /\ SCALE_FACTORS(sfi) >= LgOf(amp)
              /\ sfi > 0 => SCALE_FACTORS(sfi - 1) < LgOf(amp)

\* C10: with bitsPerSample > 0 and a scale-factor index > 0 every quantized
\* value lies in [-qRange - 1, qRange], qRange = 2^(bitsPerSample - 1) - 1,
\* and the serializer's field of bitsPerSample bits gives it back unchanged.
C10_QuantizerClipped ==
  quantPc \in { "quantized", "decoded" } =>
    \A bfu \in 0 .. (frameData.nBfu - 1) :
      (WlBits(frameData.wordLengthIndices[bfu]) > 0
         /\ frameData.scaleFactorIndices[bfu] > 0) =>
        \A j \in 1 .. BfuSize(bfu) :
          /\ frameData.quantizedCoefficients[bfu][j]
               >= - Pow2(WlBits(frameData.wordLengthIndices[bfu]) - 1)
          /\ frameData.quantizedCoefficients[bfu][j]
               <= Pow2(WlBits(frameData.wordLengthIndices[bfu]) - 1) - 1
          /\ serPc = "frame read" =>
               deserialized.quantizedCoefficients[bfu][j]
                 = frameData.quantizedCoefficients[bfu][j]

\* a frame read back in which one BFU holds both clipping limits, produced
\* from coefficients above the scale factor
C10_Witness ==
  /\ quantPc = "quantized"
  /\ serPc = "frame read"
  /\ \E bfu \in 0 .. (frameData.nBfu - 1) :
       /\ WlBits(frameData.wordLengthIndices[bfu]) > 2
       /\ frameData.scaleFactorIndices[bfu] > 0
       /\ \E j1, j2 \in 1 .. BfuSize(bfu) :
            /\ LgOf(quantInput.bfuData[bfu][j1])
                 > SCALE_FACTORS(frameData.scaleFactorIndices[bfu])
            /\ LgOf(quantInput.bfuData[bfu][j2])
                 > SCALE_FACTORS(frameData.scaleFactorIndices[bfu])
            /\ deserialized.quantizedCoefficients[bfu][j1]
                 = Pow2(WlBits(frameData.wordLengthIndices[bfu]) - 1) - 1
            /\ deserialized.quantizedCoefficients[bfu][j2]
                 = - Pow2(WlBits(frameData.wordLengthIndices[bfu]) - 1)

(***************************************************************************)
(* Stream utilities (codec/utils.js).  A PCM frame is the sequence of its  *)
(* samples; the k-th sample of the f-th input frame carries the value      *)
(* 1000 * f + k, so that every sample read is told from a padding zero.    *)
(***************************************************************************)
\* new Float32Array(n)
Zeros(n) == SubSeq([k \in 1 .. n |-> 0], 1, n)

\* what withFlushSamples yields for one input frame of at most
\* SAMPLES_PER_FRAME samples
flushYield(frame) ==
  IF Len(frame) = SAMPLES_PER_FRAME THEN frame
  ELSE typedArraySet(Zeros(SAMPLES_PER_FRAME), frame, 0)

\* what withFlushSamples yields after the last input frame
flushTailInclusive(lastLength, toFlush) ==
  IF SAMPLES_PER_FRAME - lastLength <= toFlush
  THEN << Zeros(SAMPLES_PER_FRAME) >>
  ELSE << >>

flushTail(lastLength, toFlush) ==
  IF SAMPLES_PER_FRAME - lastLength < toFlush
  THEN << Zeros(SAMPLES_PER_FRAME) >>
  ELSE << >>

\* one iteration of the for-await loop of withFlushSamples; a frame longer
\* than SAMPLES_PER_FRAME makes paddedFrame.set throw a RangeError
FlushNext ==
  /\ flushPc = "frames"
  /\ flushIter # << >>
  /\ \E frame \in { Head(flushIter) } :
       /\ lastFrameLength' = Len(frame)
       /\ IF Len(frame) <= SAMPLES_PER_FRAME
          THEN /\ flushOut' = Append(flushOut, flushYield(frame))
               /\ flushPc' = "frames"
          ELSE /\ flushOut' = flushOut
               /\ flushPc' = "error"
  /\ flushIter' = Tail(flushIter)
  /\ UNCHANGED << flushFrames, samplesToFlush >>
  /\ UNCHANGED flushOthers

\* the end of the input stream
FlushEnd ==
  /\ flushPc = "frames"
  /\ flushIter = << >>
  /\ flushOut' = flushOut \o flushTail(lastFrameLength, samplesToFlush)
  /\ flushPc' = "done"
  /\ UNCHANGED << flushIter, flushFrames, samplesToFlush, lastFrameLength >>
  /\ UNCHANGED flushOthers

\* the whole generator on a finite stream, as withStereo runs it
RECURSIVE flushFrom(_, _, _, _)
flushFrom(iter, lastLength, out, toFlush) ==
  IF iter = << >> THEN out \o flushTail(lastLength, toFlush)
  ELSE CHOOSE res \in
         { flushFrom(rest, len, o, toFlush) :
             rest \in { Tail(iter) }, len \in { Len(Head(iter)) },
             o \in { Append(out, flushYield(Head(iter))) } } : TRUE

withFlushSamples(iter, toFlush) ==
  flushFrom(iter, SAMPLES_PER_FRAME, << >>, toFlush)

\* the complete frames the loop of withDelayCompensation emits from
\* combined, and the remainder it keeps
completeFrames(combined) ==
  SubSeq([k \in 1 .. (Len(combined) \div SAMPLES_PER_FRAME) |->
            SubSeq(combined, SAMPLES_PER_FRAME * (k - 1) + 1,
                   SAMPLES_PER_FRAME * k)],
         1, Len(combined) \div SAMPLES_PER_FRAME)

remainderOf(combined) ==
  SubSeq(combined,
         SAMPLES_PER_FRAME * (Len(combined) \div SAMPLES_PER_FRAME) + 1,
         Len(combined))

\* one iteration of the for-await loop of withDelayCompensation on the
\* generator's locals st: the new locals and the frames yielded
delayStep(st, frame) ==
  IF ~ st.droppedInitialSamples
  THEN IF st.samplesToDrop >= Len(frame)
       THEN [st |-> [st EXCEPT !.droppedInitialSamples = TRUE,
                               !.samplesToDrop = @ - Len(frame)],
             yields |-> << >>]
       ELSE [st |-> [buffer |-> SubSeq(frame, st.samplesToDrop + 1, Len(frame)),
                     droppedInitialSamples |-> TRUE,
                     samplesToDrop |-> 0],
             yields |-> << >>]
  ELSE CHOOSE res \in
         { [st |-> [st EXCEPT !.buffer = remainderOf(combined)],
            yields |-> completeFrames(combined)] :
             combined \in { st.buffer \o frame } } : TRUE

delayTailNone(st) == << >>

\* the final partial frame
delayTail(st) == IF Len(st.buffer) > 0 THEN << st.buffer >> ELSE << >>

delayLocals(toDrop) ==
  [buffer |-> << >>, droppedInitialSamples |-> FALSE, samplesToDrop |-> toDrop]

DelayNext ==
  /\ delayPc = "frames"
  /\ pcmFrameStream # << >>
  /\ \E r \in { delayStep([buffer |-> delayBuffer,
                           droppedInitialSamples |-> droppedInitialSamples,
                           samplesToDrop |-> samplesToDrop],
                          Head(pcmFrameStream)) } :
       /\ delayBuffer' = r.st.buffer
       /\ droppedInitialSamples' = r.st.droppedInitialSamples
       /\ samplesToDrop' = r.st.samplesToDrop
       /\ delayOut' = delayOut \o r.yields
  /\ pcmFrameStream' = Tail(pcmFrameStream)
  /\ UNCHANGED << delayPc, delayFrames, dropRequested >>
  /\ UNCHANGED delayOthers

DelayEnd ==
  /\ delayPc = "frames"
  /\ pcmFrameStream = << >>
  /\ delayOut' = delayOut \o delayTail([buffer |-> delayBuffer])
  /\ delayPc' = "done"
  /\ UNCHANGED << pcmFrameStream, delayFrames, dropRequested, samplesToDrop,
                  delayBuffer, droppedInitialSamples >>
  /\ UNCHANGED delayOthers

\* the whole generator on a finite stream, as withStereo runs it
RECURSIVE delayFrom(_, _, _)
delayFrom(stream, st, out) ==
  IF stream = << >> THEN out \o delayTail(st)
  ELSE CHOOSE res \in
         { delayFrom(Tail(stream), r.st, out \o r.yields) :
             r \in { delayStep(st, Head(stream)) } } : TRUE

withDelayCompensation(stream, toDrop) ==
  delayFrom(stream, delayLocals(toDrop), << >>)

\* Input streams: up to MaxFrames frames with lengths around the limits
MaxFrames == 3
sampleOf(f, k) == 1000 * f + k
FramesOf(lengths) ==
  SubSeq([f \in 1 .. Len(lengths) |->
            SubSeq([k \in 1 .. lengths[f] |-> sampleOf(f, k)], 1, lengths[f])],
         1, Len(lengths))
LengthLists(S) == UNION { [1 .. n -> S] : n \in 0 .. MaxFrames }
FlushLengths == { 1, SAMPLES_PER_FRAME - CODEC_DELAY,
                  SAMPLES_PER_FRAME - CODEC_DELAY + 1, SAMPLES_PER_FRAME,
                  SAMPLES_PER_FRAME + 1 }
FlushAmounts == { CODEC_DELAY, 1, SAMPLES_PER_FRAME }
DelayLengths == { 1, CODEC_DELAY, SAMPLES_PER_FRAME, SAMPLES_PER_FRAME + 88 }
DelayAmounts == { CODEC_DELAY, 0, 100 }

(***************************************************************************)
(* Properties of the stream utilities                                      *)
(***************************************************************************)
RECURSIVE Concat(_)
Concat(frames) ==
  IF frames = << >> THEN << >> ELSE Head(frames) \o Concat(Tail(frames))

DropFirst(samples, n) ==
  IF n >= Len(samples) THEN << >> ELSE SubSeq(samples, n + 1, Len(samples))

\* C4: for input frames of at most 512 samples withFlushSamples yields each
\* input frame in order, zero-padded to 512 samples, and after them exactly
\* one all-zero frame of 512 samples if and only if 512 minus the length of
\* the final input frame is less than samplesToFlush.
C4_FlushPadsAndFlushes ==
  (/\ flushPc = "done"
   /\ flushFrames # << >>
   /\ \A f \in 1 .. Len(flushFrames) : Len(flushFrames[f]) <= SAMPLES_PER_FRAME) =>
    LET n == Len(flushFrames)
        extra == SAMPLES_PER_FRAME - Len(flushFrames[n]) < samplesToFlush
    IN /\ Len(flushOut) = IF extra THEN n + 1 ELSE n
       /\ \A f \in 1 .. n :
            /\ Len(flushOut[f]) = SAMPLES_PER_FRAME
            /\ \A k \in 1 .. SAMPLES_PER_FRAME :
                 flushOut[f][k] = IF k <= Len(flushFrames[f])
                                  THEN flushFrames[f][k] ELSE 0
       /\ extra =>
            /\ Len(flushOut[n + 1]) = SAMPLES_PER_FRAME
            /\ \A k \in 1 .. SAMPLES_PER_FRAME : flushOut[n + 1][k] = 0

\* a finished stream whose final frame gets exactly CODEC_DELAY zeros of
\* padding and no extra frame, after an earlier short frame that was padded
C4_Witness ==
  /\ flushPc = "done"
  /\ samplesToFlush = CODEC_DELAY
  /\ Len(flushFrames) = 2
  /\ Len(flushFrames[1]) = 1
  /\ Len(flushFrames[2]) = SAMPLES_PER_FRAME - CODEC_DELAY
  /\ Len(flushOut) = 2
  /\ flushOut[1][1] = sampleOf(1, 1)
  /\ flushOut[2][SAMPLES_PER_FRAME] = 0

\* C5: the concatenation of the frames withDelayCompensation yields is the
\* concatenation of its input frames without the first samplesToDrop
\* samples (empty when the stream is shorter), whatever the frame lengths.
C5_DropsExactly ==
  delayPc = "done" =>
    Concat(delayOut) = DropFirst(Concat(delayFrames), dropRequested)

(***************************************************************************)
(* Stereo streams (codec/io/processor.js and withStereo, codec/utils.js).  *)
(* An encoder or decoder instance is a function of the frames it has been  *)
(* fed so far: its buffer pool carries the overlap and delay lines from    *)
(* call to call.  The model keeps an instance as that history, and what it *)
(* returns as a value built from the history.                              *)
(***************************************************************************)
\* what an encoder keeps of a PCM frame: its first sample and the number of
\* samples that are not zero
frameKey(frame) == << frame[1], Len(SelectSeq(frame, LAMBDA x : x # 0)) >>

\* encoder(frame) on the instance whose history, frame included, is history
encoderResult(history) == [frames |-> history]

\* decoder(unit) on the instance whose history, unit included, is history:
\* SAMPLES_PER_FRAME samples
decoderResult(history) ==
  SubSeq([k \in 1 .. SAMPLES_PER_FRAME |->
            << Len(history),
               history[Len(history)].frames[Len(history[Len(history)].frames)][1],
               k >>],
         1, SAMPLES_PER_FRAME)

DummyFrame ==
  [nBfu |-> 0, blockModes |-> << 0, 0, 0 >>, scaleFactorIndices |-> << >>,
   wordLengthIndices |-> << >>, quantizedCoefficients |-> << >>]

\* leftFrame = null
NoUnit == [frames |-> << >>]

leftsOf(pairs) == SubSeq([i \in 1 .. Len(pairs) |-> pairs[i][1]], 1, Len(pairs))
rightsOf(pairs) == SubSeq([i \in 1 .. Len(pairs) |-> pairs[i][2]], 1, Len(pairs))

\* one iteration of the zip loop of withStereo: the pair yielded for left,
\* if the right stream still has a frame
zipStep(left, rights) ==
  IF rights # << >> THEN << << left, Head(rights) >> >> ELSE << >>

RECURSIVE zipFrom(_, _, _)
zipFrom(lefts, rights, out) ==
  IF lefts = << >> THEN out
  ELSE CHOOSE res \in
         { zipFrom(Tail(lefts), r, o) :
             r \in { IF rights = << >> THEN << >> ELSE Tail(rights) },
             o \in { out \o zipStep(Head(lefts), rights) } } : TRUE

\* yield leftResult; yield rightResult
interleaveSwapped(leftResult, rightResult) == << rightResult, leftResult >>

interleave(leftResult, rightResult) == << leftResult, rightResult >>

\* withStereoFlushSamples reads the whole input and sets up one padded
\* stream per channel
StereoCollect ==
  /\ stereoPc = "collect"
  /\ leftTransformed' = withFlushSamples(leftsOf(audioFrames), CODEC_DELAY)
  /\ rightTransformed' = withFlushSamples(rightsOf(audioFrames), CODEC_DELAY)
  /\ stereoPc' = "zip"
  /\ UNCHANGED << audioFrames, leftEncoder, rightEncoder, encodedUnits,
                  encodedFrames, decodeFed, leftFrame, isLeftChannel,
                  leftDecoder, rightDecoder, rawPcmFrames, stereoOut >>
  /\ UNCHANGED stereoOthers

\* one iteration of the zip loop and, when it yields a pair, of the loop of
\* _encodeStereoStream
StereoZip ==
  /\ stereoPc = "zip"
  /\ leftTransformed # << >>
  /\ \E y \in { zipStep(Head(leftTransformed), rightTransformed) } :
       IF y = << >>
       THEN UNCHANGED << leftEncoder, rightEncoder, encodedUnits >>
       ELSE \E le \in { Append(leftEncoder, frameKey(y[1][1])) } :
            \E re \in { Append(rightEncoder, frameKey(y[1][2])) } :
              /\ leftEncoder' = le
              /\ rightEncoder' = re
              /\ encodedUnits' =
                   encodedUnits \o interleave(encoderResult(le), encoderResult(re))
  /\ leftTransformed' = Tail(leftTransformed)
  /\ rightTransformed' =
       IF rightTransformed = << >> THEN << >> ELSE Tail(rightTransformed)
  /\ UNCHANGED << stereoPc, audioFrames, encodedFrames, decodeFed, leftFrame,
                  isLeftChannel, leftDecoder, rightDecoder, rawPcmFrames,
                  stereoOut >>
  /\ UNCHANGED stereoOthers

\* the left stream is exhausted: the encoded stream ends
StereoZipEnd ==
  /\ stereoPc = "zip"
  /\ leftTransformed = << >>
  /\ stereoPc' = "encoded"
  /\ UNCHANGED << audioFrames, leftTransformed, rightTransformed, leftEncoder,
                  rightEncoder, encodedUnits, encodedFrames, decodeFed,
                  leftFrame, isLeftChannel, leftDecoder, rightDecoder,
                  rawPcmFrames, stereoOut >>
  /\ UNCHANGED stereoOthers

\* _decodeStereoStream is called on the encoded stream, or on the stream
\* without its last unit
DecodeStereoStart ==
  /\ stereoPc = "encoded"
  /\ \E n \in { Len(encodedUnits), Max(0, Len(encodedUnits) - 1) } :
       /\ encodedFrames' = SubSeq(encodedUnits, 1, n)
       /\ decodeFed' = SubSeq(encodedUnits, 1, n)
  /\ stereoPc' = "decode"
  /\ UNCHANGED << audioFrames, leftTransformed, rightTransformed, leftEncoder,
                  rightEncoder, encodedUnits, leftFrame, isLeftChannel,
                  leftDecoder, rightDecoder, rawPcmFrames, stereoOut >>
  /\ UNCHANGED stereoOthers

\* one iteration of the loop of rawPcmFrames
DecodeUnit ==
  /\ stereoPc = "decode"
  /\ encodedFrames # << >>
  /\ IF isLeftChannel
     THEN /\ leftFrame' = Head(encodedFrames)
          /\ UNCHANGED << leftDecoder, rightDecoder, rawPcmFrames >>
     ELSE \E ld \in { Append(leftDecoder, leftFrame) } :
          \E rd \in { Append(rightDecoder, Head(encodedFrames)) } :
            /\ leftDecoder' = ld
            /\ rightDecoder' = rd
            /\ rawPcmFrames' =
                 Append(rawPcmFrames, << decoderResult(ld), decoderResult(rd) >>)
            /\ UNCHANGED leftFrame
  /\ isLeftChannel' = ~ isLeftChannel
  /\ encodedFrames' = Tail(encodedFrames)
  /\ UNCHANGED << stereoPc, audioFrames, leftTransformed, rightTransformed,
                  leftEncoder, rightEncoder, encodedUnits, decodeFed,
                  stereoOut >>
  /\ UNCHANGED stereoOthers

\* the stream ends after a left unit: the left decoder takes it, the right
\* decoder is called on the dummy frame, which has no blockSizeMode, and
\* the inverse MDCT stage throws a TypeError
DecodeOdd ==
  /\ stereoPc = "decode"
  /\ encodedFrames = << >>
  /\ ~ isLeftChannel
  /\ leftFrame # NoUnit
  /\ leftDecoder' = Append(leftDecoder, leftFrame)
  /\ rightDecoder' = Append(rightDecoder, DummyFrame)
  /\ stereoPc' = "error"
  /\ UNCHANGED << audioFrames, leftTransformed, rightTransformed, leftEncoder,
                  rightEncoder, encodedUnits, encodedFrames, decodeFed,
                  leftFrame, isLeftChannel, rawPcmFrames, stereoOut >>
  /\ UNCHANGED stereoOthers

\* the stream ends after a right unit: withStereoDelayCompensation, having
\* read all the pairs, runs the delay compensation per channel and zips
DecodeEnd ==
  /\ stereoPc = "decode"
  /\ encodedFrames = << >>
  /\ isLeftChannel
  /\ stereoOut' =
       zipFrom(withDelayCompensation(leftsOf(rawPcmFrames), CODEC_DELAY),
               withDelayCompensation(rightsOf(rawPcmFrames), CODEC_DELAY),
               << >>)
  /\ stereoPc' = "done"
  /\ UNCHANGED << audioFrames, leftTransformed, rightTransformed, leftEncoder,
                  rightEncoder, encodedUnits, encodedFrames, decodeFed,
                  leftFrame, isLeftChannel, leftDecoder, rightDecoder,
                  rawPcmFrames >>
  /\ UNCHANGED stereoOthers

\* _encodeMonoStream on one channel's frames
monoEncodeStream(frames) ==
  CHOOSE res \in
    { SubSeq([i \in 1 .. Len(fl) |->
                encoderResult(SubSeq([j \in 1 .. i |-> frameKey(fl[j])], 1, i))],
             1, Len(fl)) :
        fl \in { withFlushSamples(frames, CODEC_DELAY) } } : TRUE

\* _decodeMonoStream on one channel's units
monoDecodeStream(units) ==
  withDelayCompensation(
    SubSeq([i \in 1 .. Len(units) |-> decoderResult(SubSeq(units, 1, i))],
           1, Len(units)),
    CODEC_DELAY)

\* Input: up to MaxPairs frame pairs; left samples are positive, right
\* samples negative
MaxPairs == 2
StereoLengths == { 200, SAMPLES_PER_FRAME }
channelFrame(sign, f, n) ==
  SubSeq([k \in 1 .. n |-> sign * sampleOf(f, k)], 1, n)
PairsOf(lengths) ==
  SubSeq([f \in 1 .. Len(lengths) |->
            << channelFrame(1, f, lengths[f][1]),
               channelFrame(-1, f, lengths[f][2]) >>],
         1, Len(lengths))
StereoInputs ==
  { PairsOf(lengths) :
      lengths \in UNION { [1 .. n -> StereoLengths \X StereoLengths] :
                            n \in 0 .. MaxPairs } }

(***************************************************************************)
(* Properties of the stereo streams                                        *)
(***************************************************************************)
\* the frames one channel's encoder is to see: the channel's input frames,
\* padded, and zero frames after them
expectedKey(channel, i) ==
  IF i <= Len(audioFrames)
  THEN frameKey(flushYield(audioFrames[i][channel]))
  ELSE frameKey(Zeros(SAMPLES_PER_FRAME))

expectedUnit(channel, k) ==
  encoderResult(SubSeq([i \in 1 .. k |-> expectedKey(channel, i)], 1, k))

\* C6: the encoded units alternate left, right: the units of the k-th
\* frame pair (k from 0) stand at positions 2k and 2k+1 of the stream, and
\* the decoder hands unit 2k to the left decoder and unit 2k+1 to the right
\* decoder, each decoder getting its units in stream order.
C6_Interleaved ==
  /\ \A k \in 1 .. (Len(encodedUnits) \div 2) :
       /\ encodedUnits[2 * k - 1] = expectedUnit(1, k)
       /\ encodedUnits[2 * k] = expectedUnit(2, k)
  /\ stereoPc \in { "encoded", "decode", "done", "error" } =>
       Len(encodedUnits) >= 2 * Len(audioFrames)
  /\ \A i \in 1 .. Len(leftDecoder) : leftDecoder[i] = decodeFed[2 * i - 1]
  /\ \A i \in 1 .. Len(rightDecoder) :
       2 * i <= Len(decodeFed) => rightDecoder[i] = decodeFed[2 * i]
  /\ stereoPc \in { "done", "error" } =>
       /\ Len(leftDecoder) = (Len(decodeFed) + 1) \div 2
       /\ Len(rightDecoder) >= Len(decodeFed) \div 2

\* two frame pairs with unlike channels encoded and decoded to the end
C6_Witness ==
  /\ stereoPc = "done"
  /\ Len(audioFrames) = 2
  /\ Len(encodedUnits) >= 4
  /\ encodedUnits[3] # encodedUnits[4]
  /\ Len(leftDecoder) >= 2
  /\ leftDecoder[2] = encodedUnits[3]
  /\ rightDecoder[2] = encodedUnits[4]

\* C7: what one channel puts out is what its own input alone determines:
\* the left units are those of the left frames encoded as a mono stream,
\* the right units those of the right frames, and likewise for the decoded
\* frames, whatever the other channel carries.
C7_ChannelsIndependent ==
  /\ stereoPc \in { "encoded", "decode", "done", "error" } =>
       /\ leftsOf(SubSeq([k \in 1 .. (Len(encodedUnits) \div 2) |->
                            << encodedUnits[2 * k - 1], encodedUnits[2 * k] >>],
                         1, Len(encodedUnits) \div 2))
            = monoEncodeStream(leftsOf(audioFrames))
       /\ rightsOf(SubSeq([k \in 1 .. (Len(encodedUnits) \div 2) |->
                             << encodedUnits[2 * k - 1], encodedUnits[2 * k] >>],
                          1, Len(encodedUnits) \div 2))
            = monoEncodeStream(rightsOf(audioFrames))
  /\ stereoPc = "done" =>
       /\ leftsOf(stereoOut) = monoDecodeStream(leftDecoder)
       /\ rightsOf(stereoOut) = monoDecodeStream(rightDecoder)

(***************************************************************************)
(* packBits and unpackBits on a buffer of their own                        *)
(***************************************************************************)
\* packBits(buffer, bitPosition, value, bitCount)
Pack ==
  /\ bitsPc = "input"
  /\ bitBuf' = packBits(bitBuf, bitPos, bitVal, bitCnt)
  /\ bitsPc' = "packed"
  /\ UNCHANGED << bitOrig, bitPos, bitVal, bitCnt, bitRead >>
  /\ UNCHANGED bitsOthers

\* unpackBits(buffer, bitPosition, bitCount)
Unpack ==
  /\ bitsPc = "packed"
  /\ bitRead' = unpackBits(bitBuf, bitPos, bitCnt)
  /\ bitsPc' = "read"
  /\ UNCHANGED << bitOrig, bitBuf, bitPos, bitVal, bitCnt >>
  /\ UNCHANGED bitsOthers

\* buffers of 1, 2 and MaxBufferBytes bytes, zero-initialised or filled
\* with 0xff or 0xa5; every bit position of the buffer; bit counts 0..30;
\* values: all ones, 0b1010.., 0b..11110000 and zero on bitCount bits
MaxBufferBytes == 5
BitBufferLengths == { 1, 2, MaxBufferBytes }
BitFills == { 0, 255, 165 }
BitCounts == 0 .. 30
BitValues(n) ==
  { Pow2(n) - 1, 715827882 % Pow2(n), 821096688 % Pow2(n), 0 }

(***************************************************************************)
(* Properties of the bitstream                                             *)
(***************************************************************************)
\* the bit at a bit position of the buffer, bit 0 being the most
\* significant bit of byte 0
bitAt(buffer, pos) == BitField(buffer[(pos \div 8) + 1], 7 - (pos % 8), 1)

InsideBuffer ==
  /\ bitCnt \in 1 .. 30
  /\ bitVal < Pow2(bitCnt)
  /\ bitPos + bitCnt <= 8 * Len(bitBuf)

\* C13: fields are packed most significant bit first and packing is
\* invertible: for a field of 1..30 bits inside the buffer and a value below
\* 2^bitCount, the bit at position bitPosition + k is bit bitCount - 1 - k of
\* the value, unpackBits returns the value, and packBits(buf, 4, 0b11110000,
\* 8) on two zero bytes gives 0b00001111, 0b00000000.
C13_PackInvertible ==
  InsideBuffer =>
    /\ bitsPc \in { "packed", "read" } =>
         \A k \in 0 .. (bitCnt - 1) :
           bitAt(bitBuf, bitPos + k) = BitField(bitVal, bitCnt - 1 - k, 1)
    /\ bitsPc = "read" => bitRead = bitVal
    /\ (bitsPc = "packed" /\ bitOrig = << 0, 0 >> /\ bitPos = 4
          /\ bitVal = 240 /\ bitCnt = 8) => bitBuf = << 15, 0 >>

\* the value 0b11110000 packed across the byte boundary and read back
C13_Witness ==
  /\ bitsPc = "read"
  /\ bitOrig = << 0, 0 >>
  /\ bitPos = 4 /\ bitCnt = 8 /\ bitVal = 240
  /\ bitBuf = << 15, 0 >>
  /\ bitRead = 240

\* C14: in every serialized sound unit all the bits after the last packed
\* coefficient field through byte 211 are zero, and the fields packed before
\* (word-length and scale-factor indices) still hold their values: packing a
\* field changes the bits of that field only.
C14_TrailingBitsZero ==
  (serPc = "unit" /\ Len(soundUnit) = SOUND_UNIT_SIZE /\ frameData # SerNoFrame) =>
    /\ \A pos \in serBitPosition .. (FRAME_BITS - 1) : bitAt(soundUnit, pos) = 0
    /\ \A i \in 0 .. (frameData.nBfu - 1) :
         /\ unpackBits(soundUnit, FRAME_HEADER_BITS + FRAME_WORD_LENGTH_BITS * i,
                       FRAME_WORD_LENGTH_BITS)
              = frameData.wordLengthIndices[i]
         /\ unpackBits(soundUnit,
                       FRAME_HEADER_BITS + FRAME_WORD_LENGTH_BITS * frameData.nBfu
                         + FRAME_SCALE_FACTOR_BITS * i,
                       FRAME_SCALE_FACTOR_BITS)
              = frameData.scaleFactorIndices[i]

\* a unit whose last coefficient field ends inside a byte before byte 209,
\* with one bits in that field
C14_Witness ==
  /\ serPc = "unit"
  /\ Len(soundUnit) = SOUND_UNIT_SIZE
  /\ serBitPosition % 8 # 0
  /\ serBitPosition < FRAME_BITS - 24
  /\ bitAt(soundUnit, serBitPosition - 1) = 1
  /\ \E i \in 0 .. (frameData.nBfu - 1) : frameData.wordLengthIndices[i] > 0

(***************************************************************************)
(* AEA header and blob (AeaFile of codec/io/serialization.js, createAeaBlob *)
(* of codec/io/processor.js, encodeFile of the command line).  A string is  *)
(* the sequence of its UTF-16 code units; the inputs hold no surrogates.    *)
(* A 32-bit count is kept as << high 16 bits, low 16 bits >> so that every  *)
(* value of [0, 2^32) has a representation; a first component outside       *)
(* 0 .. 65535 stands for a number outside [0, 2^32).                        *)
(***************************************************************************)
AEA_MAGIC == << 0, 8, 0, 0 >>
AEA_HEADER_SIZE == 2048
AEA_TITLE_OFFSET == 4
AEA_TITLE_SIZE == 256
AEA_FRAME_COUNT_OFFSET == 260
AEA_CHANNEL_COUNT_OFFSET == 264

\* options.title undefined
NoTitle == << -1 >>

\* 'encoded by atrac1.js'
DefaultTitle ==
  << 101, 110, 99, 111, 100, 101, 100, 32, 98, 121, 32, 97, 116, 114, 97, 99,
     49, 46, 106, 115 >>

\* the UTF-8 bytes of one code unit
utf8Bytes(c) ==
  IF c < 128 THEN << c >>
  ELSE IF c < 2048 THEN << 192 + (c \div 64), 128 + (c % 64) >>
  ELSE << 224 + (c \div 4096), 128 + ((c \div 64) % 64), 128 + (c % 64) >>

\* new TextEncoder().encode(title), the title taken by halves
RECURSIVE textEncode(_)
textEncode(title) ==
  IF title = << >> THEN << >>
  ELSE IF Len(title) = 1 THEN utf8Bytes(title[1])
  ELSE textEncode(SubSeq(title, 1, Len(title) \div 2))
         \o textEncode(SubSeq(title, (Len(title) \div 2) + 1, Len(title)))

\* the UTF-8 decoder, for sequences of one, two and three bytes.  Byte i
\* belongs to the sequence a byte before it started when it is a
\* continuation byte after a lead byte, or the second continuation byte after
\* a three-byte lead; every other byte starts a character
continuesSequence(bytes, i) ==
  /\ bytes[i] \in 128 .. 191
  /\ \/ i >= 2 /\ bytes[i - 1] \in 194 .. 239
     \/ i >= 3 /\ bytes[i - 2] \in 224 .. 239 /\ bytes[i - 1] \in 128 .. 191

\* the character decoded at a start byte: a byte that starts no sequence,
\* or a sequence cut short, gives U+FFFD
decodedAt(bytes, i) ==
  LET b == bytes[i]
      c1 == i + 1 <= Len(bytes) /\ bytes[i + 1] \in 128 .. 191
      c2 == i + 2 <= Len(bytes) /\ bytes[i + 2] \in 128 .. 191
  IN IF b < 128 THEN b
     ELSE IF b \in 194 .. 223 /\ c1
     THEN (b - 192) * 64 + (bytes[i + 1] - 128)
     ELSE IF b \in 224 .. 239 /\ c1 /\ c2
     THEN (b - 224) * 4096 + (bytes[i + 1] - 128) * 64 + (bytes[i + 2] - 128)
     ELSE 65533

decodeAll(bytes) ==
  CHOOSE res \in
    { SubSeq([k \in 1 .. Len(starts) |-> decodedAt(bytes, starts[k])], 1,
             Len(starts)) :
        starts \in { SelectSeq(SubSeq([i \in 1 .. Len(bytes) |-> i], 1, Len(bytes)),
                               LAMBDA i : ~ continuesSequence(bytes, i)) } } : TRUE

\* new TextDecoder().decode(bytes): UTF-8, a leading byte order mark dropped
textDecode(bytes) ==
  IF Len(bytes) >= 3 /\ SubSeq(bytes, 1, 3) = << 239, 187, 191 >>
  THEN decodeAll(SubSeq(bytes, 4, Len(bytes)))
  ELSE decodeAll(bytes)

\* a length as a 32-bit count
countOf(n) == << n \div 65536, n % 65536 >>

setUint32BigEndian(target, offset, value) ==
  typedArraySet(target,
                << (value[1] \div 256) % 256, value[1] % 256,
                   (value[2] \div 256) % 256, value[2] % 256 >>,
                offset)

\* view.setUint32(offset, value, true)
setUint32(target, offset, value) ==
  typedArraySet(target,
                << value[2] % 256, (value[2] \div 256) % 256,
                   value[1] % 256, (value[1] \div 256) % 256 >>,
                offset)

\* view.getUint32(offset, true)
getUint32(source, offset) ==
  << source[offset + 3] + 256 * source[offset + 4],
     source[offset + 1] + 256 * source[offset + 2] >>

\* AeaFile.createHeader
createHeader(title, frameCount, channelCount) ==
  CHOOSE res \in
    { [setUint32(typedArraySet(
                   typedArraySet(SubSeq([k \in 1 .. AEA_HEADER_SIZE |-> 0], 1,
                                        AEA_HEADER_SIZE),
                                 AEA_MAGIC, 0),
                   SubSeq(titleBytes, 1,
                          Min(Len(titleBytes), AEA_TITLE_SIZE - 1)),
                   AEA_TITLE_OFFSET),
                 AEA_FRAME_COUNT_OFFSET, frameCount)
         EXCEPT ![AEA_CHANNEL_COUNT_OFFSET + 1] = channelCount % 256] :
        titleBytes \in { textEncode(title) } } : TRUE

\* header.indexOf(value, from)
indexOf(source, value, from) ==
  IF \E k \in from .. (Len(source) - 1) : source[k + 1] = value
  THEN CHOOSE k \in from .. (Len(source) - 1) :
         /\ source[k + 1] = value
         /\ \A j \in from .. (k - 1) : source[j + 1] # value
  ELSE -1

NoInfo == [error |-> "none", title |-> << >>, frameCount |-> << 0, 0 >>,
           channelCount |-> 0]

\* AeaFile.parseHeader; error is "none" when it returns
parseHeader(source) ==
  IF Len(source) # AEA_HEADER_SIZE
  THEN [NoInfo EXCEPT !.error = "Header must be 2048 bytes"]
  ELSE IF \E i \in 1 .. Len(AEA_MAGIC) : source[i] # AEA_MAGIC[i]
  THEN [NoInfo EXCEPT !.error = "Invalid AEA file"]
  ELSE CHOOSE res \in
         { [error |-> "none",
            title |-> textDecode(SubSeq(source, AEA_TITLE_OFFSET + 1,
                                        AEA_TITLE_OFFSET + titleLength)),
            frameCount |-> getUint32(source, AEA_FRAME_COUNT_OFFSET),
            channelCount |-> source[AEA_CHANNEL_COUNT_OFFSET + 1]] :
             titleLength \in
               { IF titleEnd = -1 THEN AEA_TITLE_SIZE
                 ELSE titleEnd - AEA_TITLE_OFFSET :
                   titleEnd \in { indexOf(source, 0, AEA_TITLE_OFFSET) } } } : TRUE

\* validateTitle of the command line: "ok", or the reason of the rejection
validateTitle(title) ==
  IF title = << >> THEN "ok"
  ELSE IF \E i \in 1 .. Len(title) : title[i] > 127 THEN "non-ASCII"
  ELSE IF Len(title) > AEA_TITLE_SIZE - 1 THEN "too long"
  ELSE "ok"

\* the loop of _encodeStereoStream over the pairs withStereo yields
RECURSIVE stereoEncodeFrom(_, _, _, _)
stereoEncodeFrom(zipped, le, re, out) ==
  IF zipped = << >> THEN out
  ELSE CHOOSE res \in
         { stereoEncodeFrom(Tail(zipped), l, r,
                            out \o interleave(encoderResult(l), encoderResult(r))) :
             l \in { Append(le, frameKey(Head(zipped)[1])) },
             r \in { Append(re, frameKey(Head(zipped)[2])) } } : TRUE

\* AudioProcessor.encodeStream(pcm, { channelCount })
encodeStream(pcm, channelCount) ==
  IF channelCount = 2
  THEN stereoEncodeFrom(
         zipFrom(withFlushSamples(leftsOf(pcm), CODEC_DELAY),
                 withFlushSamples(rightsOf(pcm), CODEC_DELAY), << >>),
         << >>, << >>, << >>)
  ELSE monoEncodeStream(pcm)

blobFrameCountPerChannel(units, channelCount) ==
  countOf(Len(units) \div channelCount)

\* frames.length, as createAeaBlob hands it to createHeader
blobFrameCount(units, channelCount) == countOf(Len(units))

\* createAeaBlob(encodedFrames, { title, channelCount }): every unit is
\* serialized into a buffer of SOUND_UNIT_SIZE bytes
createAeaBlob(units, title, channelCount) ==
  [header |-> createHeader(IF title = NoTitle THEN DefaultTitle ELSE title,
                           blobFrameCount(units, channelCount), channelCount),
   bodySize |-> Len(units) * SOUND_UNIT_SIZE]

\* AeaFile.createHeader(title, frameCount, channelCount)
CreateHeader ==
  /\ aeaPc = "createHeader"
  /\ aeaHeader' = createHeader(aeaTitle, aeaCount, aeaChannels)
  /\ aeaPc' = "header"
  /\ UNCHANGED << aeaEntry, aeaTitle, aeaOutputName, aeaCount, aeaChannels,
                  aeaPcm, aeaUnits, aeaBodySize, aeaInfo >>
  /\ UNCHANGED aeaOthers

\* AudioProcessor.createAeaBlob on the stream encodeStream made
CreateAeaBlob ==
  /\ aeaPc = "createAeaBlob"
  /\ \E units \in { encodeStream(aeaPcm, aeaChannels) } :
     \E blob \in { createAeaBlob(units, aeaTitle, aeaChannels) } :
       /\ aeaUnits' = units
       /\ aeaHeader' = blob.header
       /\ aeaBodySize' = blob.bodySize
  /\ aeaPc' = "header"
  /\ UNCHANGED << aeaEntry, aeaTitle, aeaOutputName, aeaCount, aeaChannels,
                  aeaPcm, aeaInfo >>
  /\ UNCHANGED aeaOthers

\* encodeFile of the command line, for a WAV file of one or two channels:
\* a title given with --title is validated, a title not given is the name
\* of the output file
EncodeFile ==
  /\ aeaPc = "encodeFile"
  /\ IF aeaTitle # NoTitle /\ aeaTitle # << >> /\ validateTitle(aeaTitle) # "ok"
     THEN /\ aeaPc' = "invalid title"
          /\ UNCHANGED << aeaUnits, aeaHeader, aeaBodySize >>
     ELSE \E title \in { IF aeaTitle # NoTitle /\ aeaTitle # << >>
                         THEN aeaTitle ELSE aeaOutputName } :
          \E units \in { encodeStream(aeaPcm, aeaChannels) } :
          \E blob \in { createAeaBlob(units, title, aeaChannels) } :
            /\ aeaUnits' = units
            /\ aeaHeader' = blob.header
            /\ aeaBodySize' = blob.bodySize
            /\ aeaPc' = "header"
  /\ UNCHANGED << aeaEntry, aeaTitle, aeaOutputName, aeaCount, aeaChannels,
                  aeaPcm, aeaInfo >>
  /\ UNCHANGED aeaOthers

\* AeaFile.parseHeader on the header made
ParseHeader ==
  /\ aeaPc = "header"
  /\ \E info \in { parseHeader(aeaHeader) } :
       /\ aeaInfo' = info
       /\ aeaPc' = IF info.error = "none" THEN "parsed" ELSE "error"
  /\ UNCHANGED << aeaEntry, aeaTitle, aeaOutputName, aeaCount, aeaChannels,
                  aeaPcm, aeaUnits, aeaHeader, aeaBodySize >>
  /\ UNCHANGED aeaOthers

\* Titles: lengths around the size of the title field; printable ASCII,
\* all of ASCII but NUL, a NUL inside, a two-byte character first, a
\* three-byte character last, a byte order mark first
TitleLengths == { 0, 1, 10, AEA_TITLE_SIZE - 2, AEA_TITLE_SIZE - 1, AEA_TITLE_SIZE,
                  AEA_TITLE_SIZE + 44 }
TitlePatterns == { "ascii", "control", "nul", "latin", "euro", "bom" }
titleChar(p, len, k) ==
  CASE p = "ascii" -> 32 + ((7 * k) % 95)
    [] p = "control" -> 1 + (k % 127)
    [] p = "nul" -> IF k = 2 THEN 0 ELSE 65
    [] p = "latin" -> IF k = 1 THEN 233 ELSE 97
    [] p = "euro" -> IF k = len THEN 8364 ELSE 97
    [] p = "bom" -> IF k = 1 THEN 65279 ELSE 97
titleOf(p, len) == SubSeq([k \in 1 .. len |-> titleChar(p, len, k)], 1, len)
Titles == { titleOf(p, len) : p \in TitlePatterns, len \in TitleLengths }

\* frame counts 0, 123, 2^16 - 1, 2^16, 2^31, 2^32 - 1 and 2^32 + 5
FrameCounts ==
  { << 0, 0 >>, << 0, 123 >>, << 0, 65535 >>, << 1, 0 >>, << 32768, 0 >>,
    << 65535, 65535 >>, << 65536, 5 >> }
ChannelCounts == { 1, 2, 258 }

\* streams for createAeaBlob and encodeFile
AeaMonoInputs ==
  { FramesOf(lengths) :
      lengths \in { << >>, << SAMPLES_PER_FRAME >>, << SAMPLES_PER_FRAME, 200 >>,
                    << SAMPLES_PER_FRAME, SAMPLES_PER_FRAME, 300 >> } }
AeaStereoInputs ==
  { PairsOf(lengths) :
      lengths \in { << >>, << << SAMPLES_PER_FRAME, SAMPLES_PER_FRAME >> >>,
                    << << SAMPLES_PER_FRAME, SAMPLES_PER_FRAME >>, << 200, 200 >> >>,
                    << << SAMPLES_PER_FRAME, SAMPLES_PER_FRAME >>,
                       << 200, SAMPLES_PER_FRAME >> >> } }
AeaInputs(channelCount) ==
  IF channelCount = 2 THEN AeaStereoInputs ELSE AeaMonoInputs

(***************************************************************************)
(* Properties of the AEA header                                            *)
(***************************************************************************)
HeaderMade == aeaPc \in { "header", "parsed", "error" }

\* C16: for an ASCII title of at most 255 characters without NUL, a frame
\* count in [0, 2^32) and a channel count 1 or 2, createHeader gives 2048
\* bytes that start with 00 08 00 00, and parseHeader on them returns the
\* same title, frameCount and channelCount.
C16_HeaderRoundTrip ==
  (/\ aeaEntry = "createHeader"
   /\ Len(aeaTitle) <= AEA_TITLE_SIZE - 1
   /\ \A k \in 1 .. Len(aeaTitle) : aeaTitle[k] \in 1 .. 127
   /\ aeaCount[1] \in 0 .. 65535
   /\ aeaChannels \in { 1, 2 }) =>
    /\ aeaPc # "error"
    /\ HeaderMade =>
         /\ Len(aeaHeader) = AEA_HEADER_SIZE
         /\ SubSeq(aeaHeader, 1, 4) = << 0, 8, 0, 0 >>
    /\ aeaPc = "parsed" =>
         /\ aeaInfo.title = aeaTitle
         /\ aeaInfo.frameCount = aeaCount
         /\ aeaInfo.channelCount = aeaChannels

\* a title of 255 ASCII characters and the frame count 2^32 - 1 read back
C16_Witness ==
  /\ aeaEntry = "createHeader"
  /\ aeaPc = "parsed"
  /\ Len(aeaTitle) = AEA_TITLE_SIZE - 1
  /\ \A k \in 1 .. Len(aeaTitle) : aeaTitle[k] \in 1 .. 127
  /\ aeaCount = << 65535, 65535 >>
  /\ aeaChannels = 2
  /\ aeaInfo.title = aeaTitle
  /\ aeaInfo.frameCount = << 65535, 65535 >>

\* the frames each channel's encoder is handed: the channel's frames and its
\* flush frame; for two channels the frame pairs of the padded streams
framesPerChannel ==
  IF aeaChannels = 2
  THEN Min(Len(withFlushSamples(leftsOf(aeaPcm), CODEC_DELAY)),
           Len(withFlushSamples(rightsOf(aeaPcm), CODEC_DELAY)))
  ELSE Len(withFlushSamples(aeaPcm, CODEC_DELAY))

\* C17: the frame count createAeaBlob writes in the header is the number of
\* 212-byte units of the body, which is the units per channel times the
\* channel count; for stereo it is even, twice the number of frame pairs.
C17_FrameCountIsUnitCount ==
  (aeaEntry \in { "createAeaBlob", "encodeFile" } /\ HeaderMade) =>
    /\ aeaBodySize % SOUND_UNIT_SIZE = 0
    /\ getUint32(aeaHeader, AEA_FRAME_COUNT_OFFSET)
         = countOf(aeaBodySize \div SOUND_UNIT_SIZE)
    /\ aeaBodySize \div SOUND_UNIT_SIZE = framesPerChannel * aeaChannels
    /\ aeaHeader[AEA_CHANNEL_COUNT_OFFSET + 1] = aeaChannels
    /\ aeaChannels = 2 => (aeaBodySize \div SOUND_UNIT_SIZE) % 2 = 0
    /\ aeaPc = "parsed" =>
         aeaInfo.frameCount = countOf(framesPerChannel * aeaChannels)

\* a stereo stream of one full frame pair: the pair and the flush pair give
\* four units
C17_Witness ==
  /\ aeaEntry = "createAeaBlob"
  /\ aeaPc = "parsed"
  /\ aeaChannels = 2
  /\ Len(aeaPcm) = 1
  /\ Len(aeaUnits) = 4
  /\ aeaBodySize = 4 * SOUND_UNIT_SIZE
  /\ aeaInfo.frameCount = << 0, 4 >>

\* C18: creating an AEA header validates the title: a title with a
\* non-ASCII character or of more than 255 characters is rejected or cut to
\* 255 ASCII characters, so the title field (bytes 4..259) of a created
\* header holds no non-ASCII byte and ends with a zero byte.
C18_TitleFieldAscii ==
  HeaderMade =>
    /\ \A k \in (AEA_TITLE_OFFSET + 1) .. (AEA_TITLE_OFFSET + AEA_TITLE_SIZE) :
         aeaHeader[k] <= 127
    /\ aeaHeader[AEA_TITLE_OFFSET + AEA_TITLE_SIZE] = 0

(***************************************************************************)
(* Encoder options (codec/core/options.js).  A threshold is kept in        *)
(* thousandths: 0.01 is 10, 1.0 is 1000.  NaN is the one value for which   *)
(* both comparisons of the range check are false.                          *)
(***************************************************************************)
ThresholdKeys ==
  { "transientThresholdLow", "transientThresholdMid", "transientThresholdHigh" }

\* the values set by the constructor, which are the defaults of the metadata
DefaultValues ==
  [key \in ThresholdKeys |->
     CASE key = "transientThresholdLow" -> 1000
       [] key = "transientThresholdMid" -> 1500
       [] key = "transientThresholdHigh" -> 2000]

\* metadata[key].range
optionRange(key) ==
  CASE key = "transientThresholdLow" -> << 10, 2000 >>
    [] key = "transientThresholdMid" -> << 10, 3000 >>
    [] key = "transientThresholdHigh" -> << 10, 4000 >>

\* property names every object inherits: "key in this.metadata" and
\* "key in this.values" hold for them
InheritedKeys == { "toString" }

NaN == -1000000

\* a < b on numbers
jsLess(a, b) == a # NaN /\ b # NaN /\ a < b

\* value < min || value > max
outOfRange(key, value) ==
  jsLess(value, optionRange(key)[1]) \/ jsLess(optionRange(key)[2], value)

setValueIgnoreUnknown(values, key, value) ==
  IF key \notin ThresholdKeys \cup InheritedKeys
  THEN [values |-> values, error |-> "none"]
  ELSE IF key \in InheritedKeys
  THEN [values |-> values, error |-> "TypeError"]
  ELSE IF outOfRange(key, value)
  THEN [values |-> values, error |-> "out of range"]
  ELSE [values |-> [values EXCEPT ![key] = value], error |-> "none"]

\* setValue(key, value): the values afterwards and the error thrown
setValue(values, key, value) ==
  IF key \notin ThresholdKeys \cup InheritedKeys
  THEN [values |-> values, error |-> "Unknown option"]
  ELSE IF key \in InheritedKeys
  THEN [values |-> values, error |-> "TypeError"]
  ELSE IF outOfRange(key, value)
  THEN [values |-> values, error |-> "out of range"]
  ELSE [values |-> [values EXCEPT ![key] = value], error |-> "none"]

\* setOptions(options): the entries in order, those with a key in
\* this.values handed to setValue; the first throw ends the loop
RECURSIVE setOptions(_, _)
setOptions(values, entries) ==
  IF entries = << >> THEN [values |-> values, error |-> "none"]
  ELSE IF Head(entries)[1] \in ThresholdKeys \cup InheritedKeys
  THEN CHOOSE res \in
         { IF r.error # "none" THEN r ELSE setOptions(r.values, Tail(entries)) :
             r \in { setValue(values, Head(entries)[1], Head(entries)[2]) } } : TRUE
  ELSE setOptions(values, Tail(entries))

NoCall == [op |-> "none", entries |-> << >>]

\* Calls: the three thresholds, a key that is no option and an inherited
\* property name; values 0, 0.005, 0.01, 2, 2.001, 3, 4, 4.001 and NaN;
\* option objects as the sequence of their entries
OptionKeys == ThresholdKeys \cup { "unknownOption" } \cup InheritedKeys
OptionNumbers == { 0, 5, 10, 2000, 2001, 3000, 4000, 4001, NaN }
OptionObjects ==
  { << >>,
    << << "transientThresholdLow", 10 >> >>,
    << << "transientThresholdLow", 2000 >>, << "transientThresholdMid", 3000 >>,
       << "transientThresholdHigh", 4000 >> >>,
    << << "transientThresholdLow", 0 >> >>,
    << << "transientThresholdMid", 3001 >> >>,
    << << "transientThresholdLow", 500 >>, << "transientThresholdMid", 3001 >> >>,
    << << "transientThresholdMid", 10 >>, << "transientThresholdHigh", 4001 >> >>,
    << << "transientThresholdHigh", NaN >> >>,
    << << "unknownOption", 123 >> >>,
    << << "transientThresholdLow", 500 >>, << "unknownOption", 123 >> >>,
    << << "unknownOption", 123 >>, << "transientThresholdHigh", 4001 >> >>,
    << << "toString", 1 >> >> }

\* new EncoderOptions(options)
Construct ==
  /\ optPc = "new"
  /\ \E options \in OptionObjects :
     \E r \in { setOptions(DefaultValues, options) } :
       /\ optCall' = [op |-> "constructor", entries |-> options]
       /\ optBefore' = DefaultValues
       /\ optValues' = r.values
       /\ optError' = r.error
       /\ optPc' = IF r.error = "none" THEN "ready" ELSE "failed"
  /\ UNCHANGED optOthers

\* options.setValue(key, value)
SetValue ==
  /\ optPc = "ready"
  /\ \E key \in OptionKeys, value \in OptionNumbers :
     \E r \in { setValue(optValues, key, value) } :
       /\ optCall' = [op |-> "setValue", entries |-> << << key, value >> >>]
       /\ optBefore' = optValues
       /\ optValues' = r.values
       /\ optError' = r.error
  /\ UNCHANGED optPc
  /\ UNCHANGED optOthers

\* options.setOptions(options)
SetOptions ==
  /\ optPc = "ready"
  /\ \E options \in OptionObjects :
     \E r \in { setOptions(optValues, options) } :
       /\ optCall' = [op |-> "setOptions", entries |-> options]
       /\ optBefore' = optValues
       /\ optValues' = r.values
       /\ optError' = r.error
  /\ UNCHANGED optPc
  /\ UNCHANGED optOthers

\* options.reset()
Reset ==
  /\ optPc = "ready"
  /\ optCall' = [op |-> "reset", entries |-> << >>]
  /\ optBefore' = optValues
  /\ optValues' = DefaultValues
  /\ optError' = "none"
  /\ UNCHANGED optPc
  /\ UNCHANGED optOthers

(***************************************************************************)
(* Properties of the encoder options                                       *)
(***************************************************************************)
inRange(key, value) ==
  value # NaN /\ value >= optionRange(key)[1] /\ value <= optionRange(key)[2]

\* C19: options are validated on construction and on every set: a threshold
\* outside its range (low 0.01..2, mid 0.01..3, high 0.01..4) fails and is
\* not stored, so after any sequence of constructor, setValue, setOptions
\* and reset calls every stored threshold lies within its range.
C19_ThresholdsInRange ==
  /\ optPc = "ready" =>
       \A key \in ThresholdKeys : inRange(key, optValues[key])
  /\ (optCall.op = "setValue" /\ optCall.entries[1][1] \in ThresholdKeys
        /\ ~ inRange(optCall.entries[1][1], optCall.entries[1][2])) =>
       (optError # "none" /\ optValues = optBefore)

HasUnknownKey ==
  \E i \in 1 .. Len(optCall.entries) : optCall.entries[i][1] \notin ThresholdKeys

\* C20 as stated: an unknown option key fails, whether it is given to the
\* constructor, to setOptions or to setValue.
C20_UnknownKeyFails ==
  (optCall.op \in { "constructor", "setOptions", "setValue" } /\ HasUnknownKey) =>
    optError # "none"

\* C20, amended: an unknown option key given to setValue fails and changes
\* nothing; the constructor and setOptions skip a key that is no property of
\* the values object without failing: they fail only for a threshold out of
\* range, and with unknown keys alone they store nothing.
C20_UnknownKeySetValueFails ==
  /\ (optCall.op = "setValue" /\ HasUnknownKey) =>
       (optError # "none" /\ optValues = optBefore)
  /\ (/\ optCall.op \in { "constructor", "setOptions" }
      /\ \A i \in 1 .. Len(optCall.entries) :
           /\ optCall.entries[i][1] \notin InheritedKeys
           /\ optCall.entries[i][1] \in ThresholdKeys =>
                ~ outOfRange(optCall.entries[i][1], optCall.entries[i][2])) =>
       /\ optError = "none"
       /\ (\A i \in 1 .. Len(optCall.entries) :
             optCall.entries[i][1] \notin ThresholdKeys) => optValues = optBefore

\* setValue('unknownOption', ...) on an instance with changed values threw
C20_Witness ==
  /\ optPc = "ready"
  /\ optCall.op = "setValue"
  /\ optCall.entries[1][1] = "unknownOption"
  /\ optError = "Unknown option"
  /\ optValues = optBefore
  /\ optValues # DefaultValues

\* an entry of an option object that setValue refuses: a threshold below
\* or above the range of its key
invalidEntry(entry) ==
  entry[1] \in ThresholdKeys /\ outOfRange(entry[1], entry[2])

\* C29: a batch update is all-or-nothing: when any entry of the object given
\* to setOptions or to the constructor is invalid, the call fails and no
\* option value has changed, the entries before the invalid one included.
\* (A constructor that throws leaves no instance whose values could be
\* read; the values are compared for setOptions.)
C29_BatchAllOrNothing ==
  (/\ optCall.op \in { "constructor", "setOptions" }
   /\ \E e \in 1 .. Len(optCall.entries) : invalidEntry(optCall.entries[e])) =>
    /\ optError # "none"
    /\ optCall.op = "setOptions" => optValues = optBefore

(***************************************************************************)
(* The decoder (codec/pipeline/decoder.js): dequantizationStage,           *)
(* imdctStage and qmfSynthesisStage on one BufferPool.  A time-domain      *)
(* sample is 0 when it is exactly zero and a positive number otherwise:    *)
(* a band sample carries the number of its frame and its position, a       *)
(* synthesis output is 1 when a sample that is not zero contributes to it. *)
(***************************************************************************)
QMF_DELAY == 46
QMF_HIGH_BAND_DELAY == 39

\* frameData.blockSizeMode of a frame that has no such property
Undefined == << >>

\* [coefficients, blockSizeMode] of dequantizationStage; reading
\* blockSizeMode[band] of undefined throws
dequantizationStage(frame) ==
  LET blockSizeMode == IF "blockSizeMode" \in DOMAIN frame
                       THEN frame.blockSizeMode ELSE Undefined
  IN IF frame.nBfu > 0 /\ blockSizeMode = Undefined
     THEN [error |-> TRUE, coefficients |-> << >>, blockModes |-> Undefined]
     ELSE [error |-> FALSE,
           coefficients |->
             dequantizeBfus([k \in 1 .. SAMPLES_PER_FRAME |-> ZeroCoefficient],
                            frame, 0, frame.nBfu),
           blockModes |-> blockSizeMode]

\* coefficients.subarray of band: first index (from 0) and size
bandStart(band) == CASE band = 0 -> 0 [] band = 1 -> 128 [] band = 2 -> 256
bandSizeOf(band) == IF band = 2 THEN 256 ELSE 128

bandSample(frameNo, k) == frameNo * 1000 + k

\* one band of imdctStage: the inverse transform of coefficients that are
\* all zero is zero; the first 32 samples of the band are the overlap-add of
\* the previous tail and the new block, the others come from the new block
imdctBand(coefficients, band, overlapTail, frameNo) ==
  LET bandSize == bandSizeOf(band)
      live == \E k \in (bandStart(band) + 1) .. (bandStart(band) + bandSize) :
                ~ IsZero(coefficients[k])
  IN [band |-> SubSeq([k \in 1 .. bandSize |->
                         IF live \/ (k <= 32 /\ overlapTail)
                         THEN bandSample(frameNo, k) ELSE 0], 1, bandSize),
      tail |-> live]

\* imdctStage: 1 << blockModes[band] throws when blockModes is undefined
imdctStage(input, overlap, frameNo) ==
  IF input.blockModes = Undefined
  THEN [error |-> TRUE, bands |-> << >>, overlap |-> overlap]
  ELSE CHOOSE res \in
         { [error |-> FALSE,
            bands |-> SubSeq([b \in 1 .. 3 |-> r[b].band], 1, 3),
            overlap |-> SubSeq([b \in 1 .. 3 |-> r[b].tail], 1, 3)] :
             r \in { [b \in 1 .. 3 |->
                        imdctBand(input.coefficients, b - 1, overlap[b],
                                  frameNo)] } } : TRUE

\* qmfSynthesis: the work buffer is the delay line followed by the merged
\* samples 0.5 * (low + high), 0.5 * (low - high); an output sample sums 24
\* products of work buffer entries
qmfSynthesis(lowBand, highBand, delayLine) ==
  LET subbandLength == Len(lowBand)
      merged == [k \in 1 .. (2 * subbandLength) |->
                   IF lowBand[(k + 1) \div 2] # 0 \/ highBand[(k + 1) \div 2] # 0
                   THEN 1 ELSE 0]
  IN CHOOSE res \in
       { [output |->
            SubSeq([k \in 1 .. (2 * subbandLength) |->
                      LET offset == 2 * ((k - 1) \div 2)
                          first == IF (k - 1) % 2 = 0 THEN 1 ELSE 0
                      IN IF \E j \in 0 .. 23 :
                              workBuffer[offset + 2 * j + first + 1] # 0
                         THEN 1 ELSE 0], 1, 2 * subbandLength),
          newDelay |->
            SubSeq(workBuffer, Len(workBuffer) - QMF_DELAY + 1,
                   Len(workBuffer))] :
           workBuffer \in { delayLine \o SubSeq(merged, 1, 2 * subbandLength) } } :
       TRUE

\* qmfSynthesisStage on the bands [low, mid, high]
qmfSynthesisStage(bands, delays, workHigh) ==
  CHOOSE res \in
    { [output |-> stage1.output,
       highBand |-> SubSeq(delayedHigh, 1, 2 * Len(bands[1])),
       workHigh |-> delayedHigh,
       delays |-> [lowBand |-> stage1.newDelay,
                   midBand |-> stage2.newDelay,
                   highBand |-> SubSeq(delayedHigh, 2 * Len(bands[1]) + 1,
                                       Len(delayedHigh))]] :
        delayedHigh \in
          { typedArraySet(typedArraySet(workHigh, delays.highBand, 0),
                          bands[3], 0) },
        stage2 \in { qmfSynthesis(bands[1], bands[2], delays.midBand) },
        stage1 \in
          { qmfSynthesis(
              qmfSynthesis(bands[1], bands[2], delays.midBand).output,
              SubSeq(typedArraySet(typedArraySet(workHigh, delays.highBand, 0),
                                   bands[3], 0), 1, 2 * Len(bands[1])),
              delays.lowBand) } } : TRUE

\* decoder(frame) of decode(): the three stages piped
Decode ==
  /\ decPc = "stream"
  /\ decStream # << >>
  /\ \E frame \in { Head(decStream) } :
     \E dq \in { dequantizationStage(frame) } :
     \E im \in { IF dq.error THEN [error |-> TRUE, bands |-> << >>,
                                   overlap |-> imdctOverlap]
                 ELSE imdctStage(dq, imdctOverlap, Len(decTaken) + 1) } :
       /\ decTaken' = Append(decTaken, frame)
       /\ decStream' = Tail(decStream)
       /\ decDelayBefore' = qmfDelays.highBand
       /\ IF im.error
          THEN /\ decPc' = "error"
               /\ UNCHANGED << imdctOverlap, qmfDelays, highBandDelay,
                               decBands, decHighBand, decOut >>
          ELSE \E syn \in { qmfSynthesisStage(im.bands, qmfDelays,
                                              highBandDelay) } :
                 /\ decPc' = "stream"
                 /\ imdctOverlap' = im.overlap
                 /\ qmfDelays' = syn.delays
                 /\ highBandDelay' = syn.workHigh
                 /\ decBands' = im.bands
                 /\ decHighBand' = syn.highBand
                 /\ decOut' = syn.output
  /\ UNCHANGED decOthers

\* Frames for the decoder: every BFU of a frame has the same word-length
\* index, scale-factor index and coefficient value
uniformFrame(nBfu, modes, wl, sfi, q) ==
  [nBfu |-> nBfu, blockSizeMode |-> modes,
   scaleFactorIndices |-> [i \in 0 .. (nBfu - 1) |-> sfi],
   wordLengthIndices |-> [i \in 0 .. (nBfu - 1) |-> wl],
   quantizedCoefficients |->
     [i \in 0 .. (nBfu - 1) |-> SubSeq([j \in 1 .. BfuSize(i) |-> q], 1,
                                       BfuSize(i))]]

DecoderFrames ==
  { uniformFrame(52, << 0, 0, 0 >>, 8, 10, 123),
    uniformFrame(20, << 0, 0, 0 >>, 4, 30, -3),
    uniformFrame(20, << 2, 2, 3 >>, 0, 30, 0),
    uniformFrame(0, << 0, 0, 0 >>, 0, 0, 0),
    uniformFrame(0, << 2, 2, 3 >>, 0, 0, 0) }

\* a stream of up to MaxUnits frames; the stereo path hands the placeholder
\* of _createDummyFrame to the right decoder as its last frame
MaxUnits == 3
DecoderStreams ==
  UNION { { SubSeq(s, 1, n) : s \in [1 .. n -> DecoderFrames] } \cup
          { SubSeq([k \in 1 .. n |-> IF k = n THEN DummyFrame ELSE s[k]], 1, n) :
              s \in [1 .. n -> DecoderFrames] } : n \in 1 .. MaxUnits }

(***************************************************************************)
(* Properties of the decoder                                               *)
(***************************************************************************)
\* C21: the decoder does not fail on a frame with nBfu = 0, the placeholder
\* of the stereo path included, and returns a frame of 512 samples for it,
\* which is silent when the decoder has been given frames with nBfu = 0
\* only.
C21_EmptyFrameSilent ==
  (decTaken # << >> /\ decTaken[Len(decTaken)].nBfu = 0) =>
    /\ decPc # "error"
    /\ Len(decOut) = SAMPLES_PER_FRAME
    /\ (\A i \in 1 .. Len(decTaken) : decTaken[i].nBfu = 0) =>
         decOut = Zeros(SAMPLES_PER_FRAME)

\* C25: the high band handed to the final synthesis is the carried-over
\* 39 samples followed by the first 217 samples of the frame's high band,
\* and the last 39 samples of the frame's high band are carried over.
C25_HighBandDelayed ==
  (decPc = "stream" /\ decTaken # << >>) =>
    /\ decHighBand =
         decDelayBefore \o SubSeq(decBands[3], 1, 256 - QMF_HIGH_BAND_DELAY)
    /\ qmfDelays.highBand =
         SubSeq(decBands[3], 256 - QMF_HIGH_BAND_DELAY + 1, 256)

(***************************************************************************)
(* The command line (main of the CLI): option checks, the operation and    *)
(* the exit code.  The input path holds nothing, a WAV file of some        *)
(* channel count, or a file whose first 2048 bytes are read as AEA header. *)
(***************************************************************************)
NotExited == -1

CliInputs == { "missing", "wav mono", "wav stereo", "wav 3 channels",
               "aea", "aea bad magic" }

\* the 2048 bytes dumpFile and AeaReader.loadMetadata hand to parseHeader
cliHeaderBuffer(input) ==
  IF input = "aea" THEN createHeader(DefaultTitle, countOf(3), 1)
  ELSE [createHeader(DefaultTitle, countOf(3), 1) EXCEPT ![2] = 0]

\* the validation of the operation modes and of the output path in main;
\* process.exit(1) on each failure
Main ==
  /\ cliPc = "main"
  /\ \E modes \in { Cardinality({ k \in { "encode", "decode", "json" } :
                                    cliOptions[k] }) } :
       IF modes = 0
       THEN /\ cliMessage' = "Must specify one of --encode, --decode, or --json"
            /\ cliFailure' = "usage"
            /\ cliExit' = 1
            /\ cliPc' = "exited"
       ELSE IF modes > 1
       THEN /\ cliMessage' = "Cannot specify multiple operation modes"
            /\ cliFailure' = "usage"
            /\ cliExit' = 1
            /\ cliPc' = "exited"
       ELSE IF cliOutputExists /\ ~ cliOptions.force
       THEN /\ cliMessage' = "Output file already exists"
            /\ cliFailure' = "usage"
            /\ cliExit' = 1
            /\ cliPc' = "exited"
       ELSE /\ cliPc' = "operation"
            /\ UNCHANGED << cliMessage, cliFailure, cliExit >>
  /\ UNCHANGED << cliOptions, cliInput, cliOutputExists >>
  /\ UNCHANGED cliOthers

\* what encodeFile throws: the kind of failure and the message
encodeFileError(input, title) ==
  IF input = "missing" THEN << "io", "File not found" >>
  ELSE IF input = "wav 3 channels"
  THEN << "format", "Unsupported channel count" >>
  ELSE IF title # NoTitle /\ title # << >> /\ validateTitle(title) # "ok"
  THEN << "format", validateTitle(title) >>
  ELSE << "none", "" >>

\* what decodeFile throws: loadMetadata hands the header to parseHeader
decodeFileError(input) ==
  IF input = "missing" THEN << "io", "File not found" >>
  ELSE CHOOSE res \in
         { IF info.error = "none" THEN << "none", "" >>
           ELSE << "format", info.error >> :
             info \in { parseHeader(cliHeaderBuffer(input)) } } : TRUE

\* what dumpFile throws
dumpFileError(input) ==
  IF input = "missing" THEN << "io", "File not found" >>
  ELSE CHOOSE res \in
         { IF info.error = "none" THEN << "none", "" >>
           ELSE << "format", "Invalid AEA header" >> :
             info \in { parseHeader(cliHeaderBuffer(input)) } } : TRUE

\* the exit code of the catch block of main, whatever was thrown
exitCode(kind) == 1

\* the try block of main with its catch: the operation runs to its end and
\* main returns, or the operation throws and the process exits
Operation ==
  /\ cliPc = "operation"
  /\ \E err \in { IF cliOptions.encode
                  THEN encodeFileError(cliInput, cliOptions.title)
                  ELSE IF cliOptions.decode THEN decodeFileError(cliInput)
                  ELSE dumpFileError(cliInput) } :
       /\ cliFailure' = err[1]
       /\ cliMessage' = err[2]
       /\ cliExit' = IF err[1] = "none" THEN 0 ELSE exitCode(err[1])
  /\ cliPc' = "exited"
  /\ UNCHANGED << cliOptions, cliInput, cliOutputExists >>
  /\ UNCHANGED cliOthers

\* the options of a call: every combination of the mode flags and --force,
\* no title, a valid title, a title with a non-ASCII character, a title of
\* 300 characters
CliTitles ==
  { NoTitle, titleOf("ascii", 10), titleOf("latin", 10),
    titleOf("ascii", AEA_TITLE_SIZE + 44) }
CliOptions ==
  [encode : BOOLEAN, decode : BOOLEAN, json : BOOLEAN, force : BOOLEAN,
   title : CliTitles]

NoOptions ==
  [encode |-> FALSE, decode |-> FALSE, json |-> FALSE, force |-> FALSE,
   title |-> NoTitle]

(***************************************************************************)
(* Properties of the command line                                          *)
(***************************************************************************)
\* C23: the process exits with code 0 on success, with code 1 on a usage
\* or I/O error and with code 2 on a format validation error (an invalid
\* AEA header, an invalid title, an unsupported channel count).
C23_ExitCodes ==
  cliPc = "exited" =>
    cliExit = CASE cliFailure = "none" -> 0
                [] cliFailure \in { "usage", "io" } -> 1
                [] cliFailure = "format" -> 2

(***************************************************************************)
(* The block selector of the encoder (blockSelectorStage).  The source     *)
(* holds two encoder pipelines; "mapped" is the stage that maps over the   *)
(* bands, "named" the stage that names the three bands.  The transient     *)
(* score of a band, a function of its spectrum and of the spectrum of the  *)
(* frame before, is an input, in thousandths like the thresholds.          *)
(***************************************************************************)
SelectorVersions == { "mapped", "named" }

\* detectTransient with the score of calculateTransientScore; the buffer
\* pool holds a previous spectrum from the start
detectTransient(transientScore, threshold) == jsLess(threshold, transientScore)

\* the option the stage compares the score of a band with
thresholdKey(band) ==
  CASE band = 0 -> "transientThresholdLow"
    [] band = 1 -> "transientThresholdMid"
    [] band = 2 -> "transientThresholdHigh"

\* the block mode of a band with a transient: 4 short blocks in the low and
\* mid bands, 8 in the high band
shortMode(band) == Max(band + 1, 2)

\* blockModes of blockSelectorStage for the scores of the three bands
blockSelectorStage(version, scores, options) ==
  IF version = "mapped"
  THEN SubSeq([b \in 1 .. 3 |->
                 IF detectTransient(scores[b], options["transientThresholdLow"])
                 THEN shortMode(b - 1) ELSE 0], 1, 3)
  ELSE SubSeq([b \in 1 .. 3 |->
                 IF detectTransient(scores[b], options[thresholdKey(b - 1)])
                 THEN shortMode(b - 1) ELSE 0], 1, 3)

\* thresholds at the lower end of every range, at the default of the low
\* band and at the upper end of the range of the low band; scores below,
\* between and above them
SelThresholds == { 10, 1000, 2000 }
SelScores == { 5, 1200, 2500 }

\* the stage on one frame
BlockSelector ==
  /\ selPc = "frames"
  /\ \E scores \in SelScores \X SelScores \X SelScores :
       /\ selScores' = scores
       /\ blockModes' = blockSelectorStage(selVersion, scores, selOptions)
  /\ UNCHANGED << selPc, selVersion, selOptions >>
  /\ UNCHANGED selOthers

(***************************************************************************)
(* Properties of the block selector                                        *)
(***************************************************************************)
\* C24: the block mode of each band is decided by that band's score against
\* that band's own threshold, and with any other value for the threshold
\* of one band the stage returns the same modes for the other two bands.
C24_BandThresholds ==
  selScores # << >> =>
    /\ \A b \in 1 .. 3 :
         blockModes[b] =
           IF detectTransient(selScores[b], selOptions[thresholdKey(b - 1)])
           THEN shortMode(b - 1) ELSE 0
    /\ \A b \in 1 .. 3 : \A v \in SelThresholds : \A other \in 1 .. 3 :
         other # b =>
           blockSelectorStage(selVersion, selScores,
                              [selOptions EXCEPT ![thresholdKey(b - 1)] = v])[other]
             = blockModes[other]

(***************************************************************************)
(* Carta1Worker: the promise interface of the worker thread                *)
(*   src/codec/core/options.js 156-313, src/unnamed/part_018               *)
(* A call is one atomic step (the promise executor runs synchronously);    *)
(* the handler of the worker thread is asynchronous, so that answers may   *)
(* come in another order than the calls.                                   *)
(***************************************************************************)
\* calls made on one instance
MaxJobs == 2

\* what a call hands over: data the worker can work on, data it fails on,
\* and data that cannot be cloned into a message (postMessage throws)
WorkerPayloads == { "good", "bad", "unclonable" }

\* JavaScript truthiness of a message field
truthy(v) == v \notin { "undefined", "" }

mapSet(map, key, value) ==
  [k \in (DOMAIN map) \cup {key} |-> IF k = key THEN value ELSE map[k]]

mapDelete(map, key) == [k \in (DOMAIN map) \ {key} |-> map[k]]

emptyMap == [k \in {} |-> 0]

\* resolve or reject of a promise: only the first call settles it
settle(ps, call, state) ==
  IF ps[call] = "pending" THEN [ps EXCEPT ![call] = state] ELSE ps

\* worker.postMessage throws on a terminated instance (this.worker is
\* null) and on data that cannot be cloned
postMessageThrows(worker, payload) ==
  worker = "null" \/ payload = "unclonable"

\* the body shared by encode, decode, parseAeaBlob and getEncoderOptions
workerCall(type, payload) ==
  /\ wkCalls < MaxJobs
  /\ \E jobId \in { nextJobId } : \E call \in { wkCalls + 1 } :
       /\ nextJobId' = nextJobId + 1
       /\ wkCalls' = call
       /\ IF postMessageThrows(wkWorker, payload)
          THEN /\ jobs' = mapDelete(mapSet(jobs, jobId, call), jobId)
               /\ promises' = [promises EXCEPT ![call] = "rejected"]
               /\ settleCalls' = [settleCalls EXCEPT ![call] = @ + 1]
               /\ UNCHANGED wkInbox
          ELSE /\ jobs' = mapSet(jobs, jobId, call)
               /\ promises' = [promises EXCEPT ![call] = "pending"]
               /\ UNCHANGED settleCalls
               /\ wkInbox' = Append(wkInbox,
                    [jobId |-> jobId, type |-> type, payload |-> payload])
  /\ UNCHANGED << wkWorker, wkRunning, wkOutbox >>
  /\ UNCHANGED wkOthers

CallEncode == \E payload \in WorkerPayloads : workerCall("encode", payload)

CallDecode == \E payload \in WorkerPayloads : workerCall("decode", payload)

CallParseAeaBlob ==
  \E payload \in WorkerPayloads : workerCall("parseAea", payload)

CallGetEncoderOptions == workerCall("getEncoderOptions", "good")

\* self.onmessage of the worker thread, up to its first await
WorkerOnMessage ==
  /\ wkInbox # << >>
  /\ wkRunning' = wkRunning \cup { Head(wkInbox) }
  /\ wkInbox' = Tail(wkInbox)
  /\ UNCHANGED << wkWorker, nextJobId, jobs, wkCalls, promises, settleCalls,
                  wkOutbox >>
  /\ UNCHANGED wkOthers

\* the message self.onmessage posts for e.data: the result, or the message
\* of the error its try block caught
workerAnswer(data) ==
  IF data.type \in { "encode", "decode", "parseAea", "getEncoderOptions" }
     /\ data.payload = "good"
  THEN [jobId |-> data.jobId, error |-> "undefined", result |-> "result"]
  ELSE [jobId |-> data.jobId, error |-> "message", result |-> "undefined"]

\* self.onmessage of the worker thread, from the end of its work on
WorkerPostMessage ==
  /\ \E data \in wkRunning :
       /\ wkRunning' = wkRunning \ { data }
       /\ wkOutbox' = Append(wkOutbox, workerAnswer(data))
  /\ UNCHANGED << wkWorker, nextJobId, jobs, wkCalls, promises, settleCalls,
                  wkInbox >>
  /\ UNCHANGED wkOthers

\* this.worker.onmessage
OnMessage ==
  /\ wkOutbox # << >>
  /\ wkOutbox' = Tail(wkOutbox)
  /\ \E data \in { Head(wkOutbox) } :
       IF ~ (data.jobId # 0)
       THEN UNCHANGED << jobs, promises, settleCalls >>
       ELSE IF data.jobId \in DOMAIN jobs
       THEN \E call \in { jobs[data.jobId] } :
              /\ jobs' = mapDelete(jobs, data.jobId)
              /\ promises' =
                   IF truthy(data.error) THEN settle(promises, call, "rejected")
                   ELSE IF truthy(data.result)
                   THEN settle(promises, call, "fulfilled")
                   ELSE settle(promises, call, "rejected")
              /\ settleCalls' = [settleCalls EXCEPT ![call] = @ + 1]
       ELSE UNCHANGED << jobs, promises, settleCalls >>
  /\ UNCHANGED << wkWorker, nextJobId, wkCalls, wkInbox, wkRunning >>
  /\ UNCHANGED wkOthers

\* this.worker.onerror: an error nothing in the worker thread caught
OnError ==
  /\ wkWorker = "worker"
  /\ promises' = [call \in DOMAIN promises |->
       IF \E jobId \in DOMAIN jobs : jobs[jobId] = call
       THEN settle(promises, call, "rejected")[call] ELSE promises[call]]
  /\ settleCalls' = [call \in DOMAIN settleCalls |->
       IF \E jobId \in DOMAIN jobs : jobs[jobId] = call
       THEN settleCalls[call] + 1 ELSE settleCalls[call]]
  /\ jobs' = emptyMap
  /\ UNCHANGED << wkWorker, nextJobId, wkCalls, wkInbox, wkRunning, wkOutbox >>
  /\ UNCHANGED wkOthers

\* terminate(): the thread is stopped with its unhandled messages; whether
\* a message it had already posted is still delivered is left open
Terminate ==
  /\ IF wkWorker # "null"
     THEN /\ wkWorker' = "null"
          /\ wkInbox' = << >>
          /\ wkRunning' = {}
          /\ wkOutbox' \in { wkOutbox, << >> }
     ELSE UNCHANGED << wkWorker, wkInbox, wkRunning, wkOutbox >>
  /\ jobs' = emptyMap
  /\ UNCHANGED << nextJobId, wkCalls, promises, settleCalls >>
  /\ UNCHANGED wkOthers

(***************************************************************************)
(* Properties of Carta1Worker                                              *)
(***************************************************************************)
\* C27: every promise a call returned is settled in the end: by the answer
\* of the worker, by a crash of the worker, or by terminate(); none stays
\* pending for ever.
C27_EverySettled ==
  \A call \in 1 .. MaxJobs :
    (promises[call] = "pending") ~> (promises[call] # "pending")

\* the message handled next settles no promise but that of the call made
\* with its job id
MessageSettlesOwnCall ==
  (wkOutbox # << >> /\ wkOutbox' = Tail(wkOutbox) /\ wkWorker' = wkWorker) =>
    \A call \in DOMAIN promises :
      promises'[call] # promises[call] =>
        /\ call = Head(wkOutbox).jobId
        /\ promises[call] = "pending"

\* a call takes an id no earlier call of the instance had
IdsFresh ==
  wkCalls' = wkCalls + 1 =>
    /\ nextJobId = wkCalls' /\ nextJobId' > nextJobId
    /\ promises[wkCalls'] = "none"

\* the jobs map holds the calls that are not settled, under their ids
JobsAreUnsettled ==
  /\ \A call \in DOMAIN promises :
       promises[call] = "pending" <=>
         (call \in DOMAIN jobs /\ jobs[call] = call)
  /\ \A call \in DOMAIN settleCalls : settleCalls[call] <= 1

\* C28: a message with job id j settles only the promise of the call made
\* with id j, and at most once; no id is used twice by one instance; the
\* jobs map holds exactly the calls that are not yet settled.
C28_JobsMatchPromises ==
  /\ [][MessageSettlesOwnCall /\ IdsFresh]_vars
  /\ [] JobsAreUnsettled

(***************************************************************************)
(* Mono streams (codec/io/processor.js): _encodeMonoStream over            *)
(* withFlushSamples, _decodeMonoStream under withDelayCompensation.  The   *)
(* encoder and decoder instances are kept as for the stereo streams.       *)
(***************************************************************************)
\* the encoder takes the frames withFlushSamples yields, one result each
RECURSIVE encodeFrames(_, _, _)
encodeFrames(frames, encoder, units) ==
  IF frames = << >> THEN [encoder |-> encoder, units |-> units]
  ELSE CHOOSE res \in
         { encodeFrames(Tail(frames), e, Append(units, encoderResult(e))) :
             e \in { Append(encoder, frameKey(Head(frames))) } } : TRUE

\* one iteration of the loop of _encodeMonoStream, for an input frame
EncodeMonoStream ==
  /\ monoPc = "encode"
  /\ monoIter # << >>
  /\ \E padded \in { flushYield(Head(monoIter)) } :
     \E r \in { encodeFrames(<< padded >>, monoEncoder, monoUnits) } :
       /\ monoFlushed' = Append(monoFlushed, padded)
       /\ monoEncoder' = r.encoder
       /\ monoUnits' = r.units
  /\ monoLastLength' = Len(Head(monoIter))
  /\ monoIter' = Tail(monoIter)
  /\ UNCHANGED << monoPc, monoFrames, monoEncoded, monoDecoder, monoRaw,
                  monoDelay, monoOut >>
  /\ UNCHANGED monoOthers

\* the input has ended: the loop takes what withFlushSamples yields after
\* the last frame, and the encoded stream goes to _decodeMonoStream
EncodeMonoStreamEnd ==
  /\ monoPc = "encode"
  /\ monoIter = << >>
  /\ \E tail \in { flushTail(monoLastLength, CODEC_DELAY) } :
     \E r \in { encodeFrames(tail, monoEncoder, monoUnits) } :
       /\ monoFlushed' = monoFlushed \o tail
       /\ monoEncoder' = r.encoder
       /\ monoUnits' = r.units
       /\ monoEncoded' = r.units
  /\ monoPc' = "decode"
  /\ UNCHANGED << monoFrames, monoIter, monoLastLength, monoDecoder, monoRaw,
                  monoDelay, monoOut >>
  /\ UNCHANGED monoOthers

\* one iteration of the loop of rawPcmFrames and of the loop of
\* withDelayCompensation that pulls from it
DecodeMonoStream ==
  /\ monoPc = "decode"
  /\ monoEncoded # << >>
  /\ \E d \in { Append(monoDecoder, Head(monoEncoded)) } :
     \E result \in { decoderResult(d) } :
     \E r \in { delayStep(monoDelay, result) } :
       /\ monoDecoder' = d
       /\ monoRaw' = Append(monoRaw, result)
       /\ monoDelay' = r.st
       /\ monoOut' = monoOut \o r.yields
  /\ monoEncoded' = Tail(monoEncoded)
  /\ UNCHANGED << monoPc, monoFrames, monoIter, monoLastLength, monoFlushed,
                  monoEncoder, monoUnits >>
  /\ UNCHANGED monoOthers

\* the encoded stream has ended: withDelayCompensation yields its buffer
DecodeMonoStreamEnd ==
  /\ monoPc = "decode"
  /\ monoEncoded = << >>
  /\ monoOut' = monoOut \o delayTail(monoDelay)
  /\ monoPc' = "done"
  /\ UNCHANGED << monoFrames, monoIter, monoLastLength, monoFlushed,
                  monoEncoder, monoUnits, monoEncoded, monoDecoder, monoRaw,
                  monoDelay >>
  /\ UNCHANGED monoOthers

\* Mono inputs: up to MaxFrames frames of SAMPLES_PER_FRAME samples, the
\* last one of any of these lengths (246 is the longest last frame after
\* which no extra frame is flushed)
MonoLastLengths ==
  { 1, 100, SAMPLES_PER_FRAME - CODEC_DELAY, SAMPLES_PER_FRAME - CODEC_DELAY + 1,
    400, SAMPLES_PER_FRAME }
MonoLengthLists ==
  { << >> } \cup
  { [f \in 1 .. n |-> IF f < n THEN SAMPLES_PER_FRAME ELSE last] :
      n \in 1 .. MaxFrames, last \in MonoLastLengths }

(***************************************************************************)
(* Properties of the mono streams                                          *)
(***************************************************************************)
SamplesIn(frames) == Len(Concat(frames))

\* C30: the tail of the input is never lost: for a mono stream of N samples
\* in frames of 512 samples with a possibly shorter last frame, encoding
\* (with flush padding) and decoding (with the delay compensation of 266
\* samples) yields at least N samples; the encoded stream has one unit per
\* flushed frame, and the decoded frames come in the order of the units.
C30_TailNeverLost ==
  monoPc = "done" =>
    /\ SamplesIn(monoOut) >= SamplesIn(monoFrames)
    /\ Len(monoUnits) = Len(monoFlushed)
    /\ \A u \in 1 .. Len(monoUnits) :
         /\ Len(monoUnits[u].frames) = u
         /\ monoUnits[u].frames[u] = frameKey(monoFlushed[u])
    /\ Len(monoRaw) = Len(monoUnits)
    /\ \A u \in 1 .. Len(monoRaw) :
         monoRaw[u] = decoderResult(SubSeq(monoUnits, 1, u))
    /\ Concat(monoOut) = DropFirst(Concat(monoRaw), CODEC_DELAY)

\* two full frames and a last frame of 247 samples: an extra frame was
\* flushed, four units were decoded, and the output ends with a partial
\* frame that reaches past the last input sample
C30_Witness ==
  /\ monoPc = "done"
  /\ Len(monoFrames) = 3
  /\ Len(monoFrames[3]) = SAMPLES_PER_FRAME - CODEC_DELAY + 1
  /\ Len(monoUnits) = 4
  /\ SamplesIn(monoOut) = 4 * SAMPLES_PER_FRAME - CODEC_DELAY
  /\ Len(monoOut[Len(monoOut)]) < SAMPLES_PER_FRAME

(***************************************************************************)
(* Specifications                                                          *)
(***************************************************************************)
AllocStart ==
  /\ allocPc = "input"
  /\ usedBFU = 0
  /\ remainingBits = 0
  /\ wordLengths = << >>
  /\ scaleFactorTable = [i \in BfuIndices |-> 0]
  /\ heapIndices = << >>
  /\ heapPriorities = << >>
  /\ allocSteps = 0
  /\ encoded = NoFrame

\* the allocator at rest, for the specifications of the other components
AllocIdle ==
  /\ strategy = "rdo"
  /\ bfuData = [i \in BfuIndices |-> 0]
  /\ maskDb = [i \in BfuIndices |-> 0]
  /\ AllocStart

SerStart ==
  /\ soundUnit = NoBuffer
  /\ serBitPosition = 0
  /\ deserialized = SerNoFrame

\* the serializer at rest, for the specifications of the other components
SerIdle ==
  /\ serPc = "idle"
  /\ frameData = SerNoFrame
  /\ SerStart

QuantStart ==
  /\ decoderFrame = SerNoFrame
  /\ decodedCoefficients = << >>

\* the quantization stages at rest, for the specifications of the other
\* components
QuantIdle ==
  /\ quantPc = "idle"
  /\ quantInput = NoQuantInput
  /\ QuantStart

FlushStart ==
  /\ lastFrameLength = SAMPLES_PER_FRAME
  /\ flushOut = << >>

\* withFlushSamples at rest, for the specifications of the other components
FlushIdle ==
  /\ flushPc = "idle"
  /\ flushIter = << >>
  /\ flushFrames = << >>
  /\ samplesToFlush = CODEC_DELAY
  /\ FlushStart

DelayStart ==
  /\ delayBuffer = << >>
  /\ droppedInitialSamples = FALSE
  /\ delayOut = << >>

\* withDelayCompensation at rest, for the specifications of the other
\* components
DelayIdle ==
  /\ delayPc = "idle"
  /\ pcmFrameStream = << >>
  /\ delayFrames = << >>
  /\ dropRequested = CODEC_DELAY
  /\ samplesToDrop = CODEC_DELAY
  /\ DelayStart

StereoStart ==
  /\ leftTransformed = << >>
  /\ rightTransformed = << >>
  /\ leftEncoder = << >>
  /\ rightEncoder = << >>
  /\ encodedUnits = << >>
  /\ encodedFrames = << >>
  /\ decodeFed = << >>
  /\ leftFrame = NoUnit
  /\ isLeftChannel = TRUE
  /\ leftDecoder = << >>
  /\ rightDecoder = << >>
  /\ rawPcmFrames = << >>
  /\ stereoOut = << >>

\* the stereo streams at rest, for the specifications of the other
\* components
StereoIdle ==
  /\ stereoPc = "idle"
  /\ audioFrames = << >>
  /\ StereoStart

BitsStart ==
  /\ bitBuf = bitOrig
  /\ bitRead = 0

\* the bitstream functions at rest, for the specifications of the other
\* components
BitsIdle ==
  /\ bitsPc = "idle"
  /\ bitOrig = << >>
  /\ bitPos = 0
  /\ bitVal = 0
  /\ bitCnt = 0
  /\ BitsStart

AeaStart ==
  /\ aeaUnits = << >>
  /\ aeaHeader = << >>
  /\ aeaBodySize = 0
  /\ aeaInfo = NoInfo

\* the AEA functions at rest, for the specifications of the other components
AeaIdle ==
  /\ aeaPc = "idle"
  /\ aeaEntry = "none"
  /\ aeaTitle = << >>
  /\ aeaOutputName = << >>
  /\ aeaCount = << 0, 0 >>
  /\ aeaChannels = 1
  /\ aeaPcm = << >>
  /\ AeaStart

OptStart ==
  /\ optValues = DefaultValues
  /\ optBefore = DefaultValues
  /\ optCall = NoCall
  /\ optError = "none"

\* no EncoderOptions instance, for the specifications of the other components
OptIdle ==
  /\ optPc = "idle"
  /\ OptStart

DecStart ==
  /\ decTaken = << >>
  /\ imdctOverlap = << FALSE, FALSE, FALSE >>
  /\ qmfDelays = [lowBand |-> Zeros(QMF_DELAY), midBand |-> Zeros(QMF_DELAY),
                  highBand |-> Zeros(QMF_HIGH_BAND_DELAY)]
  /\ highBandDelay = Zeros(QMF_HIGH_BAND_DELAY + 256)
  /\ decBands = << >>
  /\ decHighBand = << >>
  /\ decDelayBefore = << >>
  /\ decOut = << >>

\* no decoder instance, for the specifications of the other components
DecIdle ==
  /\ decPc = "idle"
  /\ decStream = << >>
  /\ DecStart

CliStart ==
  /\ cliFailure = "none"
  /\ cliMessage = ""
  /\ cliExit = NotExited

\* no command line call, for the specifications of the other components
CliIdle ==
  /\ cliPc = "idle"
  /\ cliOptions = NoOptions
  /\ cliInput = "missing"
  /\ cliOutputExists = FALSE
  /\ CliStart

SelStart ==
  /\ selScores = << >>
  /\ blockModes = << >>

\* no encoder, for the specifications of the other components
SelIdle ==
  /\ selPc = "idle"
  /\ selVersion = "named"
  /\ selOptions = DefaultValues
  /\ SelStart

WkStart ==
  /\ nextJobId = 1
  /\ jobs = emptyMap
  /\ wkCalls = 0
  /\ promises = [call \in 1 .. MaxJobs |-> "none"]
  /\ settleCalls = [call \in 1 .. MaxJobs |-> 0]
  /\ wkInbox = << >>
  /\ wkRunning = {}
  /\ wkOutbox = << >>

\* no worker, for the specifications of the other components
WkIdle ==
  /\ wkWorker = "null"
  /\ WkStart

MonoStart ==
  /\ monoLastLength = SAMPLES_PER_FRAME
  /\ monoFlushed = << >>
  /\ monoEncoder = << >>
  /\ monoUnits = << >>
  /\ monoEncoded = << >>
  /\ monoDecoder = << >>
  /\ monoRaw = << >>
  /\ monoDelay = delayLocals(CODEC_DELAY)
  /\ monoOut = << >>

\* no mono stream, for the specifications of the other components
MonoIdle ==
  /\ monoPc = "idle"
  /\ monoFrames = << >>
  /\ monoIter = << >>
  /\ MonoStart

\* a mono stream encoded by _encodeMonoStream and decoded by
\* _decodeMonoStream
InitAlloc ==
  /\ strategy \in { "rdo", "greedy" }
  /\ bfuData \in AllocBfuInputs
  /\ maskDb \in (IF strategy = "rdo" THEN { [i \in BfuIndices |-> 0] }
                 ELSE AllocMaskInputs)
  /\ AllocStart
  /\ SerIdle
  /\ QuantIdle
  /\ FlushIdle
  /\ DelayIdle
  /\ StereoIdle
  /\ BitsIdle
  /\ AeaIdle
  /\ OptIdle
  /\ DecIdle
  /\ CliIdle
  /\ SelIdle
  /\ WkIdle
  /\ MonoIdle

NextAlloc == RdoStart \/ RdoIter \/ GreedyStart \/ GreedyIter \/ AllocReturn

SpecAlloc == InitAlloc /\ [][NextAlloc]_vars

\* the allocator is straight-line code: the loop goes on while it can
SpecAllocLive == InitAlloc /\ [][NextAlloc]_vars /\ WF_vars(NextAlloc)

InitSer ==
  /\ \/ /\ serPc = "frame"
        /\ frameData \in SerFrames
        /\ soundUnit = NoBuffer
     \/ /\ serPc = "unit"
        /\ frameData = SerNoFrame
        /\ soundUnit \in RawUnits
  /\ serBitPosition = 0
  /\ deserialized = SerNoFrame
  /\ AllocIdle
  /\ QuantIdle
  /\ FlushIdle
  /\ DelayIdle
  /\ StereoIdle
  /\ BitsIdle
  /\ AeaIdle
  /\ OptIdle
  /\ DecIdle
  /\ CliIdle
  /\ SelIdle
  /\ WkIdle
  /\ MonoIdle

NextSer == Serialize \/ Deserialize

SpecSer == InitSer /\ [][NextSer]_vars

\* quantization stage, serializer, deserializer, dequantization stage
InitQuant ==
  /\ quantPc = "bfus"
  /\ quantInput \in QuantInputs
  /\ QuantStart
  /\ serPc = "idle"
  /\ frameData = SerNoFrame
  /\ SerStart
  /\ AllocIdle
  /\ FlushIdle
  /\ DelayIdle
  /\ StereoIdle
  /\ BitsIdle
  /\ AeaIdle
  /\ OptIdle
  /\ DecIdle
  /\ CliIdle
  /\ SelIdle
  /\ WkIdle
  /\ MonoIdle

NextQuant == Quantize \/ Serialize \/ Deserialize \/ Dequantize

SpecQuant == InitQuant /\ [][NextQuant]_vars

\* withFlushSamples on a stream of frames
InitFlush ==
  /\ flushPc = "frames"
  /\ \E lengths \in LengthLists(FlushLengths) :
       /\ flushFrames = FramesOf(lengths)
       /\ flushIter = FramesOf(lengths)
  /\ samplesToFlush \in FlushAmounts
  /\ FlushStart
  /\ AllocIdle
  /\ SerIdle
  /\ QuantIdle
  /\ DelayIdle
  /\ StereoIdle
  /\ BitsIdle
  /\ AeaIdle
  /\ OptIdle
  /\ DecIdle
  /\ CliIdle
  /\ SelIdle
  /\ WkIdle
  /\ MonoIdle

NextFlush == FlushNext \/ FlushEnd

SpecFlush == InitFlush /\ [][NextFlush]_vars

\* withDelayCompensation on a stream of frames
InitDelay ==
  /\ delayPc = "frames"
  /\ \E lengths \in LengthLists(DelayLengths) :
       /\ delayFrames = FramesOf(lengths)
       /\ pcmFrameStream = FramesOf(lengths)
  /\ dropRequested \in DelayAmounts
  /\ samplesToDrop = dropRequested
  /\ DelayStart
  /\ AllocIdle
  /\ SerIdle
  /\ QuantIdle
  /\ FlushIdle
  /\ StereoIdle
  /\ BitsIdle
  /\ AeaIdle
  /\ OptIdle
  /\ DecIdle
  /\ CliIdle
  /\ SelIdle
  /\ WkIdle
  /\ MonoIdle

NextDelay == DelayNext \/ DelayEnd

SpecDelay == InitDelay /\ [][NextDelay]_vars

\* a stereo stream encoded by _encodeStereoStream and decoded by
\* _decodeStereoStream
InitStereo ==
  /\ stereoPc = "collect"
  /\ audioFrames \in StereoInputs
  /\ StereoStart
  /\ AllocIdle
  /\ SerIdle
  /\ QuantIdle
  /\ FlushIdle
  /\ DelayIdle
  /\ BitsIdle
  /\ AeaIdle
  /\ OptIdle
  /\ DecIdle
  /\ CliIdle
  /\ SelIdle
  /\ WkIdle
  /\ MonoIdle

NextStereo ==
  \/ StereoCollect
  \/ StereoZip
  \/ StereoZipEnd
  \/ DecodeStereoStart
  \/ DecodeUnit
  \/ DecodeOdd
  \/ DecodeEnd

SpecStereo == InitStereo /\ [][NextStereo]_vars

InitBits ==
  /\ bitsPc = "input"
  /\ \E len \in BitBufferLengths, fill \in BitFills :
       /\ bitOrig = [k \in 1 .. len |-> fill]
       /\ bitPos \in 0 .. (8 * len - 1)
  /\ bitCnt \in BitCounts
  /\ bitVal \in BitValues(bitCnt)
  /\ BitsStart
  /\ AllocIdle
  /\ SerIdle
  /\ QuantIdle
  /\ FlushIdle
  /\ DelayIdle
  /\ StereoIdle
  /\ AeaIdle
  /\ OptIdle
  /\ DecIdle
  /\ CliIdle
  /\ SelIdle
  /\ WkIdle
  /\ MonoIdle

NextBits == Pack \/ Unpack

SpecBits == InitBits /\ [][NextBits]_vars

InitAea ==
  /\ aeaEntry \in { "createHeader", "createAeaBlob", "encodeFile" }
  /\ aeaPc = aeaEntry
  /\ \/ /\ aeaEntry = "createHeader"
        /\ aeaTitle \in Titles
        /\ aeaOutputName = << >>
        /\ aeaCount \in FrameCounts
        /\ aeaChannels \in ChannelCounts
        /\ aeaPcm = << >>
     \/ /\ aeaEntry = "createAeaBlob"
        /\ aeaTitle \in { NoTitle, titleOf("ascii", 10), titleOf("latin", 10) }
        /\ aeaOutputName = << >>
        /\ aeaCount = << 0, 0 >>
        /\ aeaChannels \in { 1, 2 }
        /\ aeaPcm \in AeaInputs(aeaChannels)
     \/ /\ aeaEntry = "encodeFile"
        /\ aeaTitle \in { NoTitle, << >>, titleOf("ascii", 10), titleOf("latin", 10),
                          titleOf("ascii", AEA_TITLE_SIZE) }
        /\ aeaOutputName \in { titleOf("ascii", 3), titleOf("latin", 6) }
        /\ aeaCount = << 0, 0 >>
        /\ aeaChannels \in { 1, 2 }
        /\ aeaPcm \in AeaInputs(aeaChannels)
  /\ AeaStart
  /\ AllocIdle
  /\ SerIdle
  /\ QuantIdle
  /\ FlushIdle
  /\ DelayIdle
  /\ StereoIdle
  /\ BitsIdle
  /\ OptIdle
  /\ DecIdle
  /\ CliIdle
  /\ SelIdle
  /\ WkIdle
  /\ MonoIdle

NextAea == CreateHeader \/ CreateAeaBlob \/ EncodeFile \/ ParseHeader

SpecAea == InitAea /\ [][NextAea]_vars

InitOpt ==
  /\ optPc = "new"
  /\ OptStart
  /\ AllocIdle
  /\ SerIdle
  /\ QuantIdle
  /\ FlushIdle
  /\ DelayIdle
  /\ StereoIdle
  /\ BitsIdle
  /\ AeaIdle
  /\ DecIdle
  /\ CliIdle
  /\ SelIdle
  /\ WkIdle
  /\ MonoIdle

NextOpt == Construct \/ SetValue \/ SetOptions \/ Reset

SpecOpt == InitOpt /\ [][NextOpt]_vars

InitDec ==
  /\ decPc = "stream"
  /\ decStream \in DecoderStreams
  /\ DecStart
  /\ AllocIdle
  /\ SerIdle
  /\ QuantIdle
  /\ FlushIdle
  /\ DelayIdle
  /\ StereoIdle
  /\ BitsIdle
  /\ AeaIdle
  /\ OptIdle
  /\ CliIdle
  /\ SelIdle
  /\ WkIdle
  /\ MonoIdle

NextDec == Decode

SpecDec == InitDec /\ [][NextDec]_vars

InitCli ==
  /\ cliPc = "main"
  /\ cliOptions \in CliOptions
  /\ cliInput \in CliInputs
  /\ cliOutputExists \in BOOLEAN
  /\ CliStart
  /\ AllocIdle
  /\ SerIdle
  /\ QuantIdle
  /\ FlushIdle
  /\ DelayIdle
  /\ StereoIdle
  /\ BitsIdle
  /\ AeaIdle
  /\ OptIdle
  /\ DecIdle
  /\ SelIdle
  /\ WkIdle
  /\ MonoIdle

NextCli == Main \/ Operation

SpecCli == InitCli /\ [][NextCli]_vars

InitSel ==
  /\ selPc = "frames"
  /\ selVersion \in SelectorVersions
  /\ selOptions \in [ThresholdKeys -> SelThresholds]
  /\ SelStart
  /\ AllocIdle
  /\ SerIdle
  /\ QuantIdle
  /\ FlushIdle
  /\ DelayIdle
  /\ StereoIdle
  /\ BitsIdle
  /\ AeaIdle
  /\ OptIdle
  /\ DecIdle
  /\ CliIdle
  /\ WkIdle
  /\ MonoIdle

NextSel == BlockSelector

SpecSel == InitSel /\ [][NextSel]_vars

InitWk ==
  /\ wkWorker = "worker"
  /\ WkStart
  /\ AllocIdle
  /\ SerIdle
  /\ QuantIdle
  /\ FlushIdle
  /\ DelayIdle
  /\ StereoIdle
  /\ BitsIdle
  /\ AeaIdle
  /\ OptIdle
  /\ DecIdle
  /\ CliIdle
  /\ SelIdle
  /\ MonoIdle

NextWk ==
  \/ CallEncode
  \/ CallDecode
  \/ CallParseAeaBlob
  \/ CallGetEncoderOptions
  \/ WorkerOnMessage
  \/ WorkerPostMessage
  \/ OnMessage
  \/ OnError
  \/ Terminate

SpecWk == InitWk /\ [][NextWk]_vars

\* the event loops of both threads handle every message that is waiting
SpecWkLive ==
  /\ InitWk /\ [][NextWk]_vars
  /\ WF_vars(WorkerOnMessage)
  /\ WF_vars(WorkerPostMessage)
  /\ WF_vars(OnMessage)

InitMono ==
  /\ monoPc = "encode"
  /\ \E lengths \in MonoLengthLists :
       /\ monoFrames = FramesOf(lengths)
       /\ monoIter = FramesOf(lengths)
  /\ MonoStart
  /\ AllocIdle
  /\ SerIdle
  /\ QuantIdle
  /\ FlushIdle
  /\ DelayIdle
  /\ StereoIdle
  /\ BitsIdle
  /\ AeaIdle
  /\ OptIdle
  /\ DecIdle
  /\ CliIdle
  /\ SelIdle
  /\ WkIdle

NextMono ==
  \/ EncodeMonoStream
  \/ EncodeMonoStreamEnd
  \/ DecodeMonoStream
  \/ DecodeMonoStreamEnd

SpecMono == InitMono /\ [][NextMono]_vars

=============================================================================
